---------------------------- MODULE Spec2Model ----------------------------
(***************************************************************************)
(* Model of the DockerChat command server                                  *)
(* (src/backend-servers-py/server/app.py).                                 *)
(*                                                                         *)
(* Time is an integer number of seconds.  datetime.now().isoformat() and   *)
(* datetime.fromisoformat() are inverse to each other on the naive         *)
(* datetimes the server produces, and the lexicographic order of the       *)
(* isoformat strings is the chronological order, so a stored timestamp is  *)
(* modelled by the integer it denotes.                                     *)
(*                                                                         *)
(* A Python dict whose iteration order is never observed is a function on  *)
(* its key set; private_messages, whose insertion order decides ties of    *)
(* the stable sort in get_private_messages, is the sequence of its values  *)
(* in insertion order (each value carries its key in the field id).        *)
(* json.dumps / json.loads keep the insertion order and are the identity   *)
(* on these values (string keys, strings, null, booleans).                 *)
(*                                                                         *)
(* Fields that are written once and never read by the server (created_at   *)
(* of a client and of a room, last_seen of a membership snapshot,          *)
(* signature of a message) are left out of the records.                    *)
(*                                                                         *)
(* Spec, SpecMsgs and SpecMail serve one request at a time: a request is   *)
(* two steps, its sweep (clean_expired_data) and its handler.  SpecConc    *)
(* serves requests on concurrent threads against the shared tier, one      *)
(* step per read or write of a collection.                                 *)
(***************************************************************************)
EXTENDS Integers, Sequences, FiniteSets, TLC

(* ---- program constants (app.py:11-13) ---- *)
CLIENT_TTL == 3600
ROOM_TTL == 7200
MESSAGE_TTL == 86400

(* ---- bounds of the model ---- *)
ClientIds == {"a1", "b1"}
RoomNames == {"lobby", "den"}
PublicKeys == {"pk1"}
Texts == {"hi"}
\* rooms and presence: the clock advances by TickStep, MaxTicks times at most
TickStep == CLIENT_TTL
MaxTicks == 3
\* the rooms hold at most MaxRoomMessages messages in all
MaxRoomMessages == 2
\* a room kept alive for a day: the clock starts at AgedStart and stops after
\* MaxAgedTicks steps of TickStep counted from 0
AgedStart == 23 * TickStep
MaxAgedTicks == 26
\* the private mailbox: the clock advances by MailTickStep, MaxMailTicks times
\* at most, and at most MaxPrivate private messages are ever sent
MailTickStep == MESSAGE_TTL
MaxMailTicks == 1
MaxPrivate == 2
\* concurrent requests: one in flight per slot at most
Slots == {1, 2}
ConcCommands == {"upload_public_key", "send_private", "get_private_messages"}
\* concurrent requests send at most MaxConcPrivate private messages
MaxConcPrivate == 1

None == "None"

VARIABLES
    now,                     \* datetime.now(), in seconds
    redis_client,            \* TRUE: the shared tier answered at startup (app.py:15-21)
    redis_clients,           \* the shared tier's key 'clients'
    redis_rooms,             \* the shared tier's key 'rooms'
    redis_private_messages,  \* the shared tier's key 'private_messages'
    local_clients,           \* app.py:24
    local_rooms,             \* app.py:23
    local_private_messages,  \* app.py:25
    uuid_count,              \* number of uuid4() message ids drawn so far
    phase,                   \* "idle": between requests; "swept": a request has run its sweep;
                             \* "start", "aborted", "raised": see the failing shared tier below
    evicted,                 \* what the sweep of the current request removed
    retrieved,               \* ids of the private messages their recipient has been sent
    arrived,                 \* the collections as the current request found them
    posted,                  \* the room messages sent by a client that has stayed in the room since
    req,                     \* the requests in flight when requests run concurrently
    acknowledged,            \* ids whose upload_public_key a concurrent request has answered
    disconnected,            \* ids whose disconnect a concurrent request has answered and
                             \* that no upload_public_key has written since
    connection_attempts,     \* firewall.py:29, _connection_attempts
    calls,                   \* the calls of is_rate_limited in progress, one per thread
    attempts                 \* the calls of is_rate_limited that have returned

vars == <<now, redis_client, redis_clients, redis_rooms, redis_private_messages,
          local_clients, local_rooms, local_private_messages, uuid_count,
          phase, evicted, retrieved, arrived, posted, req, acknowledged, disconnected, connection_attempts, calls, attempts>>

(* ---- helpers on dicts ---- *)
Empty == [x \in {} |-> None]

Restrict(f, S) == [x \in S |-> f[x]]

\* d[k] = v
Put(d, k, v) == [x \in DOMAIN d \cup {k} |-> IF x = k THEN v ELSE d[x]]

\* dict.update(other)
Update(d, other) ==
    [x \in DOMAIN d \cup DOMAIN other |-> IF x \in DOMAIN other THEN other[x] ELSE d[x]]

Range(s) == {s[i] : i \in 1..Len(s)}

(* ---- is_expired ---- *)
is_expired(timestamp, ttl_seconds) == now - timestamp > ttl_seconds

(* ---- json.dumps and json.loads (app.py:89, 97, 110, 117) ---- *)
\* a client_id is the JSON value of the request body: a string, or a number.
\* Number5 stands for the number 5, "5" is the string.
Number5 == "number 5"

\* json.dumps writes a key that is a number as its decimal string
json_key(key) == IF key = Number5 THEN "5" ELSE key

\* json.loads(json.dumps(d)) of a dict keyed by client_id; of two entries
\* written under the same key text the later one, d[5], is the one loaded
json_loads_dumps(d) ==
    [key \in {json_key(x) : x \in DOMAIN d} |->
        IF key = "5" /\ Number5 \in DOMAIN d THEN d[Number5] ELSE d[key]]

\* json.loads(json.dumps(rooms)): the keys of each clients mapping are client ids
json_loads_dumps_rooms(rooms) ==
    [room_id \in DOMAIN rooms |->
        [rooms[room_id] EXCEPT !.clients = json_loads_dumps(@)]]

(* ---- Entity Store ---- *)
get_clients == IF redis_client THEN redis_clients ELSE local_clients

get_rooms == IF redis_client THEN redis_rooms ELSE local_rooms

get_private_messages == IF redis_client THEN redis_private_messages ELSE local_private_messages


\* faulty variant: the shared tier merges the value into the stored collection
set_clients_merging(clients) ==
    /\ redis_clients' = IF redis_client THEN Update(redis_clients, clients) ELSE redis_clients
    /\ local_clients' =
         IF redis_client
         THEN Update(Restrict(local_clients, DOMAIN local_clients \cap DOMAIN clients), clients)
         ELSE clients

\* put('clients', clients): the mirror drops the keys absent from clients and
\* takes the rest (app.py:101-104).  In local-only mode clients is local_clients
\* itself, already changed in place.
set_clients(clients) ==
    /\ redis_clients' = IF redis_client THEN json_loads_dumps(clients) ELSE redis_clients
    /\ local_clients' =
         IF redis_client
         THEN Update(Restrict(local_clients, DOMAIN local_clients \cap DOMAIN clients), clients)
         ELSE clients

\* put('rooms', rooms): local_rooms.update(rooms) (app.py:121)
set_rooms(rooms) ==
    /\ redis_rooms' = IF redis_client THEN json_loads_dumps_rooms(rooms) ELSE redis_rooms
    /\ local_rooms' = IF redis_client THEN Update(local_rooms, rooms) ELSE rooms

\* local_private_messages.update(private_msgs) (app.py:138) on a dict kept in
\* insertion order: a key already present keeps its place and takes the new
\* value, a new key is appended.
UpdateSeq(d, other) ==
    LET ids == {other[i].id : i \in 1..Len(other)}
        val(id) == other[CHOOSE i \in 1..Len(other) : other[i].id = id]
        kept == [i \in 1..Len(d) |-> IF d[i].id \in ids THEN val(d[i].id) ELSE d[i]]
        old == {d[i].id : i \in 1..Len(d)}
        fresh(m) == m.id \notin old
    IN kept \o SelectSeq(other, fresh)

set_private_messages(private_msgs) ==
    /\ redis_private_messages' = IF redis_client THEN private_msgs ELSE redis_private_messages
    /\ local_private_messages' =
         IF redis_client THEN UpdateSeq(local_private_messages, private_msgs) ELSE private_msgs

(* ---- Expiration Sweeper: clean_expired_data, app.py:35-83 ---- *)
\* faulty variant: a client whose age is exactly CLIENT_TTL counts as expired
expired_clients_at_ttl(clients) ==
    {client_id \in DOMAIN clients : now - clients[client_id].last_seen >= CLIENT_TTL}

expired_clients(clients) ==
    {client_id \in DOMAIN clients : is_expired(clients[client_id].last_seen, CLIENT_TTL)}

\* app.py:47-52: the expired clients leave the client collection and every room
evict_clients(clients, expired) == Restrict(clients, DOMAIN clients \ expired)

\* faulty variant: the eviction also drops the messages the expired clients sent
evict_members_and_messages(rooms, expired) ==
    [room_id \in DOMAIN rooms |->
        LET other(msg) == msg.from_client \notin expired
        IN [rooms[room_id] EXCEPT !.clients = Restrict(@, DOMAIN @ \ expired),
                                  !.messages = SelectSeq(@, other)]]

evict_members(rooms, expired) ==
    [room_id \in DOMAIN rooms |->
        [rooms[room_id] EXCEPT !.clients = Restrict(@, DOMAIN @ \ expired)]]

\* faulty variant: a message whose age is exactly MESSAGE_TTL is dropped too
filter_messages_at_ttl(rooms) ==
    [room_id \in DOMAIN rooms |->
        LET fresh(msg) == now - msg.timestamp < MESSAGE_TTL
        IN [rooms[room_id] EXCEPT !.messages = SelectSeq(@, fresh)]]

\* app.py:55-60
filter_messages(rooms) ==
    [room_id \in DOMAIN rooms |->
        LET fresh(msg) == ~is_expired(msg.timestamp, MESSAGE_TTL)
        IN [rooms[room_id] EXCEPT !.messages = SelectSeq(@, fresh)]]

\* faulty variant: only the rooms without a member are removed
empty_rooms_without_ttl(rooms) ==
    {room_id \in DOMAIN rooms : DOMAIN rooms[room_id].clients = {}}

\* app.py:63-67
empty_rooms(rooms) ==
    {room_id \in DOMAIN rooms :
        \/ DOMAIN rooms[room_id].clients = {}
        \/ is_expired(rooms[room_id].last_activity, ROOM_TTL)}

\* faulty variant: a private message that has been read is dropped as well
filter_private_dropping_read(private_msgs) ==
    LET fresh(msg) == ~is_expired(msg.timestamp, MESSAGE_TTL) /\ ~msg.read
    IN SelectSeq(private_msgs, fresh)

\* app.py:73-79
filter_private(private_msgs) ==
    LET fresh(msg) == ~is_expired(msg.timestamp, MESSAGE_TTL)
    IN SelectSeq(private_msgs, fresh)

\* faulty variant: the expired clients leave the clients collection only
swept_keeping_members(clients, rooms, private_msgs) ==
    LET expired == expired_clients(clients)
        rooms1 == filter_messages(rooms)
    IN [clients |-> evict_clients(clients, expired),
        rooms |-> Restrict(rooms1, DOMAIN rooms1 \ empty_rooms(rooms1)),
        private_messages |-> filter_private(private_msgs),
        expired |-> expired,
        removed_rooms |-> empty_rooms(rooms1)]

\* faulty variant: the rooms to remove are chosen before the members are evicted
swept_rooms_first(clients, rooms, private_msgs) ==
    LET expired == expired_clients(clients)
        rooms0 == Restrict(rooms, DOMAIN rooms \ empty_rooms(rooms))
    IN [clients |-> evict_clients(clients, expired),
        rooms |-> filter_messages(evict_members(rooms0, expired)),
        private_messages |-> filter_private(private_msgs),
        expired |-> expired,
        removed_rooms |-> empty_rooms(rooms)]

\* the three collections as clean_expired_data writes them back
swept(clients, rooms, private_msgs) ==
    LET expired == expired_clients(clients)
        rooms1 == filter_messages(evict_members(rooms, expired))
    IN [clients |-> evict_clients(clients, expired),
        rooms |-> Restrict(rooms1, DOMAIN rooms1 \ empty_rooms(rooms1)),
        private_messages |-> filter_private(private_msgs),
        expired |-> expired,
        removed_rooms |-> empty_rooms(rooms1)]

NoEviction == [clients |-> {}, rooms |-> {}]

\* no request is being served
NotArrived == [clients |-> Empty, rooms |-> Empty, private_messages |-> <<>>]

\* a slot no request is in
NoRequest ==
    [pc |-> "done", command |-> None, client_id |-> None, to_client_id |-> None,
     public_key |-> None, clients |-> Empty, rooms |-> Empty, private_msgs |-> <<>>]

\* the entries of posted_set whose sender is registered and names their room
still_posted(posted_set, clients) ==
    {p \in posted_set :
        /\ p.message.from_client \in DOMAIN clients
        /\ clients[p.message.from_client].room_id = p.room_id}

\* the sweep every request starts with (app.py:189, app.py:514)
clean_expired_data ==
    LET s == swept(get_clients, get_rooms, get_private_messages)
    IN /\ phase = "idle"
       /\ phase' = "swept"
       /\ set_clients(s.clients)
       /\ set_rooms(s.rooms)
       /\ set_private_messages(s.private_messages)
       /\ evicted' = [clients |-> s.expired, rooms |-> s.removed_rooms]
       /\ arrived' = [clients |-> get_clients, rooms |-> get_rooms,
                       private_messages |-> get_private_messages]
       /\ posted' = still_posted(posted, s.clients)
       /\ UNCHANGED <<now, redis_client, uuid_count, retrieved, req, acknowledged, disconnected, connection_attempts, calls, attempts>>

\* faulty variant: a timer evicts what has expired as time passes
Tick_with_expiry(step, max_ticks) ==
    LET s == swept(get_clients, get_rooms, get_private_messages)
    IN /\ phase = "idle"
       /\ now + step <= max_ticks * step
       /\ now' = now + step
       /\ set_clients(s.clients)
       /\ set_rooms(s.rooms)
       /\ set_private_messages(s.private_messages)
       /\ UNCHANGED <<redis_client, uuid_count, phase, evicted, retrieved, arrived,
                      posted, req, acknowledged, disconnected, connection_attempts, calls, attempts>>

\* time passes between two requests
Tick(step, max_ticks) ==
    /\ phase = "idle"
    /\ now + step <= max_ticks * step
    /\ now' = now + step
    /\ UNCHANGED <<redis_client, redis_clients, redis_rooms, redis_private_messages,
                   local_clients, local_rooms, local_private_messages, uuid_count,
                   phase, evicted, retrieved, arrived, posted, req, acknowledged, disconnected, connection_attempts, calls, attempts>>

(* ---- Command Dispatcher: receive_http_command, app.py:186-510 ---- *)
(* A handler is the function from the three collections it reads (after   *)
(* the sweep) to the three collections it leaves and its response.         *)

\* what get_clients(), get_rooms(), get_private_messages() return
\* faulty variant: the handler works on the collections the request found
Store_before_sweep == arrived

Store ==
    [clients |-> get_clients, rooms |-> get_rooms, private_messages |-> get_private_messages]

\* a response that leaves the collections of store as they are
reply(store, code, error, body) ==
    [clients |-> store.clients, rooms |-> store.rooms,
     private_messages |-> store.private_messages,
     code |-> code, error |-> error, body |-> body]

\* Python truth value of a client_id or room_id
Falsy(x) == x = None \/ x = ""

\* not (not client_id or client_id not in clients)
Registered(client_id, clients) == ~Falsy(client_id) /\ client_id \in DOMAIN clients

unregistered(store) == reply(store, 400, "Unregistered client", <<>>)

\* the branches of receive_http_command (app.py:207, 232, 257, 289, 320, 362,
\* 387, 415, 434, 458, 473)
supported_verbs ==
    {"upload_public_key", "join_room", "send_message", "send_private",
     "get_private_messages", "get_messages", "list_clients", "list_rooms",
     "leave_room", "heartbeat", "disconnect"}

\* "available_commands" (app.py:497-508), each entry as verb and argument names
available_commands ==
    <<[verb |-> "upload_public_key", arguments |-> <<>>],
      [verb |-> "join_room", arguments |-> <<"ROOM_NAME">>],
      [verb |-> "send_message", arguments |-> <<"TEXT">>],
      [verb |-> "send_private", arguments |-> <<"CLIENT_ID", "MESSAGE">>],
      [verb |-> "get_messages", arguments |-> <<>>],
      [verb |-> "get_private_messages", arguments |-> <<>>],
      [verb |-> "list_rooms", arguments |-> <<>>],
      [verb |-> "list_clients", arguments |-> <<>>],
      [verb |-> "leave_room", arguments |-> <<>>],
      [verb |-> "heartbeat", arguments |-> <<>>]>>

\* app.py:494-510: the response when no branch has returned
unknown_command(store) == reply(store, 200, "Unknown command", available_commands)

\* app.py:291-293: send_private: without a second colon
send_private_format_error(store) ==
    reply(store, 400, "Command format: send_private:CLIENT_ID:MESSAGE", <<>>)

\* clients[client_id]["last_seen"] = datetime.now().isoformat()
touch(clients, client_id) == [clients EXCEPT ![client_id].last_seen = now]

new_room == [clients |-> Empty, messages |-> <<>>, last_activity |-> now]

\* faulty variant: the new entry replaces the whole clients mapping of the room
add_client_to_room_alone(rooms, room_id, client_id, client_data) ==
    LET rooms1 == IF room_id \notin DOMAIN rooms THEN Put(rooms, room_id, new_room) ELSE rooms
    IN [rooms1 EXCEPT ![room_id].clients = Put(Empty, client_id, client_data),
                      ![room_id].last_activity = now]

\* app.py:154-166, on the snapshot get_rooms() returned
add_client_to_room(rooms, room_id, client_id, client_data) ==
    LET rooms1 == IF room_id \notin DOMAIN rooms THEN Put(rooms, room_id, new_room) ELSE rooms
    IN [rooms1 EXCEPT ![room_id].clients = Put(@, client_id, client_data),
                      ![room_id].last_activity = now]

\* faulty variant: the message is put in front of the list
add_message_to_room_in_front(rooms, room_id, message) ==
    LET rooms1 == IF room_id \notin DOMAIN rooms THEN Put(rooms, room_id, new_room) ELSE rooms
    IN [rooms1 EXCEPT ![room_id].messages = <<message>> \o @,
                      ![room_id].last_activity = now]

\* app.py:140-152
add_message_to_room(rooms, room_id, message) ==
    LET rooms1 == IF room_id \notin DOMAIN rooms THEN Put(rooms, room_id, new_room) ELSE rooms
    IN [rooms1 EXCEPT ![room_id].messages = Append(@, message),
                      ![room_id].last_activity = now]

\* app.py:168-184; message_id is the uuid4 drawn
add_private_message(private_msgs, message_id, from_client, to_client, message_text) ==
    Append(private_msgs,
           [id |-> message_id, from_client |-> from_client, to_client |-> to_client,
            text |-> message_text, timestamp |-> now, read |-> FALSE])

\* app.py:212-217: the record upload_public_key creates
new_client(public_key) ==
    [public_key |-> public_key, room_id |-> None, last_seen |-> now, created_at |-> now]

\* the fields of a client record the server reads again
stored_client(record) ==
    [public_key |-> record.public_key, room_id |-> record.room_id,
     last_seen |-> record.last_seen]

\* faulty variant: a record that exists keeps its room_id
upload_public_key_keeps_room(store, client_id, public_key) ==
    [reply(store, 200, None, <<client_id>>) EXCEPT
        !.clients = Put(store.clients, client_id,
                        [stored_client(new_client(public_key)) EXCEPT
                            !.room_id = IF client_id \in DOMAIN store.clients
                                        THEN store.clients[client_id].room_id
                                        ELSE None])]

\* app.py:207-230, client_id being the id supplied or the uuid4 drawn
upload_public_key(store, client_id, public_key) ==
    [reply(store, 200, None, <<client_id>>) EXCEPT
        !.clients = Put(store.clients, client_id, stored_client(new_client(public_key)))]

\* app.py:232-255
join_room(store, client_id, room_name) ==
    IF ~Registered(client_id, store.clients)
    THEN unregistered(store)
    ELSE LET clients == [store.clients EXCEPT ![client_id].room_id = room_name,
                                              ![client_id].last_seen = now]
             rooms == add_client_to_room(store.rooms, room_name, client_id,
                                         [public_key |-> clients[client_id].public_key])
         IN [reply(store, 200, None, <<Cardinality(DOMAIN rooms[room_name].clients)>>) EXCEPT
                !.clients = clients, !.rooms = rooms]

\* faulty variant: the message is stored whether or not room_id is null
send_message_without_room_check(store, client_id, message_text) ==
    IF ~Registered(client_id, store.clients)
    THEN unregistered(store)
    ELSE LET clients == touch(store.clients, client_id)
             room_id == clients[client_id].room_id
             message == [from_client |-> client_id, text |-> message_text,
                         timestamp |-> now, public_key |-> clients[client_id].public_key]
         IN [reply(store, 200, None, <<room_id>>) EXCEPT
                !.clients = clients,
                !.rooms = add_message_to_room(store.rooms, room_id, message)]

\* app.py:257-287
send_message(store, client_id, message_text) ==
    IF ~Registered(client_id, store.clients)
    THEN unregistered(store)
    ELSE LET clients == touch(store.clients, client_id)
             room_id == clients[client_id].room_id
             message == [from_client |-> client_id, text |-> message_text,
                         timestamp |-> now, public_key |-> clients[client_id].public_key]
         IN IF Falsy(room_id)
            THEN [reply(store, 400, "You aren't connected to any room", <<>>) EXCEPT
                     !.clients = clients]
            ELSE [reply(store, 200, None, <<room_id>>) EXCEPT
                     !.clients = clients,
                     !.rooms = add_message_to_room(store.rooms, room_id, message)]

\* faulty variant: the recipient is not looked up
send_private_to_anyone(store, client_id, to_client_id, message_text, message_id) ==
    IF ~Registered(client_id, store.clients)
    THEN unregistered(store)
    ELSE [reply(store, 200, None, <<message_id>>) EXCEPT
             !.clients = touch(store.clients, client_id),
             !.private_messages = add_private_message(store.private_messages, message_id,
                                                      client_id, to_client_id, message_text)]

\* faulty variant: last_seen is refreshed before the recipient is looked up
send_private_touching_first(store, client_id, to_client_id, message_text, message_id) ==
    IF ~Registered(client_id, store.clients)
    THEN unregistered(store)
    ELSE IF to_client_id \notin DOMAIN store.clients
    THEN [reply(store, 400, "Recipient Client not found", <<>>) EXCEPT
             !.clients = touch(store.clients, client_id)]
    ELSE [reply(store, 200, None, <<message_id>>) EXCEPT
             !.clients = touch(store.clients, client_id),
             !.private_messages = add_private_message(store.private_messages, message_id,
                                                      client_id, to_client_id, message_text)]

\* app.py:289-318, a well-formed send_private:CLIENT_ID:MESSAGE
send_private(store, client_id, to_client_id, message_text, message_id) ==
    IF ~Registered(client_id, store.clients)
    THEN unregistered(store)
    ELSE IF to_client_id \notin DOMAIN store.clients
    THEN reply(store, 400, "Recipient Client not found", <<>>)
    ELSE [reply(store, 200, None, <<message_id>>) EXCEPT
             !.clients = touch(store.clients, client_id),
             !.private_messages = add_private_message(store.private_messages, message_id,
                                                      client_id, to_client_id, message_text)]

\* list.sort(key=lambda x: x["timestamp"]) (app.py:346): stable, ascending
RECURSIVE sort_by_timestamp(_)
sort_by_timestamp(s) ==
    IF s = <<>>
    THEN <<>>
    ELSE LET rest == sort_by_timestamp(SubSeq(s, 1, Len(s) - 1))
             x == s[Len(s)]
             k == Cardinality({i \in 1..Len(rest) : rest[i].timestamp <= x.timestamp})
         IN SubSeq(rest, 1, k) \o <<x>> \o SubSeq(rest, k + 1, Len(rest))

\* faulty variant: only the messages sent to client_id are collected
my_messages_received(private_msgs, client_id) ==
    LET mine(msg_data) == msg_data.to_client = client_id
        entry(msg_data) ==
            [id |-> msg_data.id, from_client |-> msg_data.from_client,
             to_client |-> msg_data.to_client, text |-> msg_data.text,
             timestamp |-> msg_data.timestamp, read |-> msg_data.read,
             direction |-> "received"]
        selected == SelectSeq(private_msgs, mine)
    IN sort_by_timestamp([i \in 1..Len(selected) |-> entry(selected[i])])

\* app.py:331-346: the entries of the response, sorted
my_messages(private_msgs, client_id) ==
    LET mine(msg_data) == msg_data.to_client = client_id \/ msg_data.from_client = client_id
        entry(msg_data) ==
            [id |-> msg_data.id, from_client |-> msg_data.from_client,
             to_client |-> msg_data.to_client, text |-> msg_data.text,
             timestamp |-> msg_data.timestamp, read |-> msg_data.read,
             direction |-> IF msg_data.to_client = client_id THEN "received" ELSE "sent"]
        selected == SelectSeq(private_msgs, mine)
    IN sort_by_timestamp([i \in 1..Len(selected) |-> entry(selected[i])])

\* faulty variant: every message of the response is marked read, the sent ones too
mark_read_sent_too(private_msgs, messages) ==
    LET flip == {messages[i].id : i \in 1..Len(messages)}
    IN [i \in 1..Len(private_msgs) |->
           IF private_msgs[i].id \in flip
           THEN [private_msgs[i] EXCEPT !.read = TRUE]
           ELSE private_msgs[i]]

\* app.py:349-351: the read-flag flip
mark_read(private_msgs, messages) ==
    LET flip == {messages[i].id : i \in {j \in 1..Len(messages) :
                     messages[j].direction = "received" /\ ~messages[j].read}}
    IN [i \in 1..Len(private_msgs) |->
           IF private_msgs[i].id \in flip
           THEN [private_msgs[i] EXCEPT !.read = TRUE]
           ELSE private_msgs[i]]

\* faulty variant: the handler answers and leaves the read flags as they are
get_private_messages_no_flip(store, client_id) ==
    IF ~Registered(client_id, store.clients)
    THEN unregistered(store)
    ELSE [reply(store, 200, None, my_messages(store.private_messages, client_id)) EXCEPT
             !.clients = touch(store.clients, client_id)]

\* app.py:320-360 (the handler; the store read of the same name is get_private_messages)
get_private_messages_cmd(store, client_id) ==
    IF ~Registered(client_id, store.clients)
    THEN unregistered(store)
    ELSE LET messages == my_messages(store.private_messages, client_id)
         IN [reply(store, 200, None, messages) EXCEPT
                !.clients = touch(store.clients, client_id),
                !.private_messages = mark_read(store.private_messages, messages)]

\* app.py:362-385
get_messages(store, client_id) ==
    IF ~Registered(client_id, store.clients)
    THEN unregistered(store)
    ELSE LET room_id == store.clients[client_id].room_id
         IN [(IF Falsy(room_id)
              THEN reply(store, 400, "You're not in any room", <<>>)
              ELSE reply(store, 200, None,
                         IF room_id \in DOMAIN store.rooms
                         THEN store.rooms[room_id].messages
                         ELSE <<>>))
             EXCEPT !.clients = touch(store.clients, client_id)]

\* app.py:387-413
list_clients(store, client_id) ==
    IF ~Registered(client_id, store.clients)
    THEN unregistered(store)
    ELSE LET clients == touch(store.clients, client_id)
         IN [reply(store, 200, None,
                   {[client_id |-> cid, room_id |-> clients[cid].room_id,
                     last_seen |-> clients[cid].last_seen,
                     online |-> ~is_expired(clients[cid].last_seen, CLIENT_TTL)] :
                       cid \in DOMAIN clients \ {client_id}})
             EXCEPT !.clients = clients]

\* app.py:415-432: no identity check, no last_seen refresh
list_rooms(store) ==
    reply(store, 200, None,
          {[name |-> room_name,
            clients |-> Cardinality(DOMAIN store.rooms[room_name].clients),
            messages |-> Len(store.rooms[room_name].messages),
            last_activity |-> store.rooms[room_name].last_activity] :
              room_name \in DOMAIN store.rooms})

\* app.py:434-456; with a null room_id the branch returns nothing and the
\* request falls through to app.py:494
leave_room(store, client_id) ==
    IF ~Registered(client_id, store.clients)
    THEN unregistered(store)
    ELSE LET room_id == store.clients[client_id].room_id
             rooms == store.rooms
         IN IF Falsy(room_id)
            THEN unknown_command(store)
            ELSE [reply(store, 200, None, <<room_id>>) EXCEPT
                     !.rooms = IF room_id \in DOMAIN rooms
                                  /\ client_id \in DOMAIN rooms[room_id].clients
                               THEN [rooms EXCEPT
                                       ![room_id].clients = Restrict(@, DOMAIN @ \ {client_id}),
                                       ![room_id].last_activity = now]
                               ELSE rooms,
                     !.clients = [store.clients EXCEPT ![client_id].room_id = None,
                                                       ![client_id].last_seen = now]]

\* faulty variant: a heartbeat of an unknown id creates its record
heartbeat_upsert(store, client_id) ==
    IF Falsy(client_id)
    THEN unregistered(store)
    ELSE [reply(store, 200, None, <<>>) EXCEPT
             !.clients = Put(store.clients, client_id,
                             [public_key |-> None, room_id |-> None, last_seen |-> now])]

\* faulty variant: a heartbeat also refreshes the last_activity of the caller's room
heartbeat_refreshes_room(store, client_id) ==
    IF ~Registered(client_id, store.clients)
    THEN unregistered(store)
    ELSE LET room_id == store.clients[client_id].room_id
         IN [reply(store, 200, None, <<>>) EXCEPT
                !.clients = touch(store.clients, client_id),
                !.rooms = IF room_id \in DOMAIN store.rooms
                          THEN [store.rooms EXCEPT ![room_id].last_activity = now]
                          ELSE store.rooms]

\* app.py:458-472
heartbeat(store, client_id) ==
    IF ~Registered(client_id, store.clients)
    THEN unregistered(store)
    ELSE [reply(store, 200, None, <<>>) EXCEPT !.clients = touch(store.clients, client_id)]

\* app.py:478-483: the membership of client_id leaves every room
remove_from_rooms(rooms, client_id) ==
    [room_id \in DOMAIN rooms |->
        IF client_id \in DOMAIN rooms[room_id].clients
        THEN [rooms[room_id] EXCEPT !.clients = Restrict(@, DOMAIN @ \ {client_id}),
                                    !.last_activity = now]
        ELSE rooms[room_id]]

\* faulty variant: only the room named by the client's room_id is visited
disconnect_current_room_only(store, client_id) ==
    IF ~Registered(client_id, store.clients)
    THEN unregistered(store)
    ELSE [reply(store, 200, None, <<>>) EXCEPT
             !.rooms = remove_from_rooms(
                           Restrict(store.rooms,
                                    DOMAIN store.rooms \cap {store.clients[client_id].room_id}),
                           client_id)
                       @@ store.rooms,
             !.clients = Restrict(store.clients, DOMAIN store.clients \ {client_id})]

\* app.py:473-492
disconnect(store, client_id) ==
    IF ~Registered(client_id, store.clients)
    THEN unregistered(store)
    ELSE [reply(store, 200, None, <<>>) EXCEPT
             !.rooms = remove_from_rooms(store.rooms, client_id),
             !.clients = Restrict(store.clients, DOMAIN store.clients \ {client_id})]

\* app.py:193-194
missing_command(store) == reply(store, 400, "Missing 'command' in JSON", <<>>)

\* app.py:512-541, after its sweep
server_status(store) ==
    reply(store, 200, None,
          [total_clients |-> Cardinality(DOMAIN store.clients),
           online_clients |->
               Cardinality({c \in DOMAIN store.clients :
                               ~is_expired(store.clients[c].last_seen, CLIENT_TTL)}),
           total_rooms |-> Cardinality(DOMAIN store.rooms),
           total_private_messages |-> Len(store.private_messages),
           rooms |-> [name \in DOMAIN store.rooms |->
                         [clients |-> Cardinality(DOMAIN store.rooms[name].clients),
                          messages |-> Len(store.rooms[name].messages),
                          last_activity |-> store.rooms[name].last_activity]]])

\* a thread that is not in is_rate_limited
NoCall == [pc |-> "done", ip |-> None, now |-> 0]

(* ---- requests ---- *)
Ids == ClientIds \cup {None}

\* the handler's result is written back and the request ends
Respond(r) ==
    /\ phase = "swept"
    /\ phase' = "idle"
    /\ set_clients(r.clients)
    /\ set_rooms(r.rooms)
    /\ set_private_messages(r.private_messages)
    /\ evicted' = NoEviction
    /\ arrived' = NotArrived
    /\ UNCHANGED <<now, redis_client, req, acknowledged, disconnected, connection_attempts, calls, attempts>>

Request(r) ==
    /\ Respond(r)
    /\ posted' = still_posted(posted, r.clients)
    /\ UNCHANGED <<uuid_count, retrieved>>

\* the number of messages the rooms named in names hold
RECURSIVE stored_messages(_, _)
stored_messages(rooms, names) ==
    IF names = {}
    THEN 0
    ELSE LET room_id == CHOOSE x \in names : TRUE
         IN Len(rooms[room_id].messages) + stored_messages(rooms, names \ {room_id})

\* a request without client_id is given a uuid4, an id no client has
UploadPublicKey ==
    \E client_id \in Ids, public_key \in PublicKeys :
        \E id \in (IF Falsy(client_id) THEN ClientIds \ DOMAIN get_clients ELSE {client_id}) :
            Request(upload_public_key(Store, id, public_key))

JoinRoom(room_names) ==
    \E client_id \in Ids, room_name \in room_names :
        Request(join_room(Store, client_id, room_name))

SendMessage ==
    \E client_id \in Ids, message_text \in Texts :
        LET r == send_message(Store, client_id, message_text)
            sent == IF r.code = 200
                    THEN LET room_id == r.clients[client_id].room_id
                             messages == r.rooms[room_id].messages
                         IN {[room_id |-> room_id, message |-> messages[Len(messages)]]}
                    ELSE {}
        IN /\ stored_messages(get_rooms, DOMAIN get_rooms) < MaxRoomMessages
           /\ Respond(r)
           /\ posted' = still_posted(posted, r.clients) \cup sent
           /\ UNCHANGED <<uuid_count, retrieved>>

SendPrivate ==
    \E client_id \in Ids, to_client_id \in ClientIds, message_text \in Texts :
        LET r == send_private(Store, client_id, to_client_id, message_text, uuid_count + 1)
        IN /\ uuid_count < MaxPrivate
           /\ Respond(r)
           /\ uuid_count' = IF r.code = 200 THEN uuid_count + 1 ELSE uuid_count
           /\ posted' = still_posted(posted, r.clients)
           /\ UNCHANGED retrieved

GetPrivateMessages ==
    \E client_id \in Ids :
        LET r == get_private_messages_cmd(Store, client_id)
        IN /\ Respond(r)
           /\ retrieved' =
                IF r.code = 200
                THEN retrieved \cup {m.id : m \in {x \in Range(get_private_messages) :
                                                      x.to_client = client_id}}
                ELSE retrieved
           /\ posted' = still_posted(posted, r.clients)
           /\ UNCHANGED uuid_count

GetMessages == \E client_id \in Ids : Request(get_messages(Store, client_id))

ListClients == \E client_id \in Ids : Request(list_clients(Store, client_id))

ListRooms == Request(list_rooms(Store))

LeaveRoom == \E client_id \in Ids : Request(leave_room(Store, client_id))

Heartbeat == \E client_id \in Ids : Request(heartbeat(Store, client_id))

Disconnect == \E client_id \in Ids : Request(disconnect(Store, client_id))

\* an unrecognized verb, or upload_public_key without a public_key (app.py:207)
UnknownCommand == Request(unknown_command(Store))

SendPrivateFormatError == Request(send_private_format_error(Store))

MissingCommand == Request(missing_command(Store))

ServerStatus == Request(server_status(Store))

Init ==
    /\ now = 0
    /\ redis_client \in BOOLEAN
    /\ redis_clients = Empty
    /\ redis_rooms = Empty
    /\ redis_private_messages = <<>>
    /\ local_clients = Empty
    /\ local_rooms = Empty
    /\ local_private_messages = <<>>
    /\ uuid_count = 0
    /\ phase = "idle"
    /\ evicted = NoEviction
    /\ retrieved = {}
    /\ arrived = NotArrived
    /\ posted = {}
    /\ req = [slot \in Slots |-> NoRequest]
    /\ acknowledged = {}
    /\ disconnected = {}
    /\ connection_attempts = Empty
    /\ calls = [slot \in Slots |-> NoCall]
    /\ attempts = {}

(* ---- rooms and presence: the requests that send no message ---- *)
Next ==
    \/ Tick(TickStep, MaxTicks)
    \/ clean_expired_data
    \/ UploadPublicKey
    \/ JoinRoom(RoomNames)
    \/ ListClients
    \/ ListRooms
    \/ LeaveRoom
    \/ Heartbeat
    \/ Disconnect
    \/ UnknownCommand
    \/ SendPrivateFormatError
    \/ MissingCommand
    \/ ServerStatus

Spec == Init /\ [][Next]_vars

(* ---- room messages: one room ---- *)
OneRoom == {"lobby"}

NextMsgs ==
    \/ Tick(TickStep, MaxTicks)
    \/ clean_expired_data
    \/ UploadPublicKey
    \/ JoinRoom(OneRoom)
    \/ SendMessage
    \/ GetMessages
    \/ LeaveRoom
    \/ Heartbeat
    \/ Disconnect
    \/ ServerStatus

SpecMsgs == Init /\ [][NextMsgs]_vars

(* ---- room names: "join_room:" names the room "" (app.py:233) ---- *)
AnyRoomName == {"", "lobby"}

NextNames ==
    \/ Tick(TickStep, MaxTicks)
    \/ clean_expired_data
    \/ UploadPublicKey
    \/ JoinRoom(AnyRoomName)
    \/ SendMessage
    \/ GetMessages
    \/ LeaveRoom
    \/ Disconnect

SpecNames == Init /\ [][NextNames]_vars

(* ---- room messages that reach MESSAGE_TTL in a room that lives on ---- *)
(* The initial state is the one the server is in at AgedStart after        *)
(* upload_public_key by a1, join_room:lobby and send_message:hi at 0,      *)
(* send_message:hi at TickStep, and join_room:lobby by a1 at every later   *)
(* multiple of TickStep.                                                   *)
aged_message(timestamp) ==
    [from_client |-> "a1", text |-> "hi", timestamp |-> timestamp, public_key |-> "pk1"]

aged_clients ==
    [client_id \in {"a1"} |->
        [public_key |-> "pk1", room_id |-> "lobby", last_seen |-> AgedStart]]

aged_rooms ==
    [room_id \in {"lobby"} |->
        [clients |-> [client_id \in {"a1"} |-> [public_key |-> "pk1"]],
         messages |-> <<aged_message(0), aged_message(TickStep)>>,
         last_activity |-> AgedStart]]

InitAged ==
    /\ now = AgedStart
    /\ redis_client \in BOOLEAN
    /\ redis_clients = IF redis_client THEN aged_clients ELSE Empty
    /\ redis_rooms = IF redis_client THEN aged_rooms ELSE Empty
    /\ redis_private_messages = <<>>
    /\ local_clients = aged_clients
    /\ local_rooms = aged_rooms
    /\ local_private_messages = <<>>
    /\ uuid_count = 0
    /\ phase = "idle"
    /\ evicted = NoEviction
    /\ retrieved = {}
    /\ arrived = NotArrived
    /\ posted = {[room_id |-> "lobby", message |-> aged_message(timestamp)] :
                     timestamp \in {0, TickStep}}
    /\ req = [slot \in Slots |-> NoRequest]
    /\ acknowledged = {}
    /\ disconnected = {}
    /\ connection_attempts = Empty
    /\ calls = [slot \in Slots |-> NoCall]
    /\ attempts = {}

NextAged ==
    \/ Tick(TickStep, MaxAgedTicks)
    \/ clean_expired_data
    \/ UploadPublicKey
    \/ JoinRoom(OneRoom)
    \/ SendMessage
    \/ GetMessages
    \/ LeaveRoom
    \/ Heartbeat
    \/ Disconnect

SpecAged == InitAged /\ [][NextAged]_vars

(* ---- a shared tier that fails: startup and outage ---- *)
(* `import redis` (app.py:4) is the only import from the client library,   *)
(* so ConnectionRefusedError, ConnectionError and TimeoutError in app.py   *)
(* are Python's builtins.  A call on redis_client answers, or raises what  *)
(* the library raises when the server cannot be reached: its own           *)
(* redis.exceptions.ConnectionError or redis.exceptions.TimeoutError,      *)
(* which derive from redis.exceptions.RedisError and not from a builtin.   *)
(* The two builtins the startup handler names are kept among the outcomes. *)
RedisErrors == {"redis.exceptions.ConnectionError", "redis.exceptions.TimeoutError"}

PingOutcomes == {"PONG", "ConnectionRefusedError", "TimeoutError"} \cup RedisErrors

\* except (ConnectionRefusedError, TimeoutError) (app.py:19)
caught_at_startup(error) == error \in {"ConnectionRefusedError", "TimeoutError"}

\* except JSONDecodeError (app.py:90, 111, 128)
caught_by_get(error) == error = "JSONDecodeError"

\* except (ConnectionError, TimeoutError) (app.py:118, 135)
caught_by_set_rooms(error) == error \in {"ConnectionError", "TimeoutError"}

\* app.py:15-21: redis_client is bound at line 16; an error of ping() that
\* the handler does not name ends the import of the module
startup ==
    \E outcome \in PingOutcomes :
        /\ phase = "start"
        /\ redis_client' = (outcome = "PONG" \/ ~caught_at_startup(outcome))
        /\ phase' = IF outcome = "PONG" \/ caught_at_startup(outcome) THEN "idle" ELSE "aborted"
        /\ UNCHANGED <<now, redis_clients, redis_rooms, redis_private_messages,
                       local_clients, local_rooms, local_private_messages, uuid_count,
                       evicted, retrieved, arrived, posted, req, acknowledged, disconnected, connection_attempts, calls, attempts>>

\* app.py:37 -> app.py:88: redis_client.get raises in the sweep of a request
get_clients_raises ==
    \E error \in RedisErrors :
        /\ phase = "idle"
        /\ redis_client
        /\ ~caught_by_get(error)
        /\ phase' = "raised"
        /\ UNCHANGED <<now, redis_client, redis_clients, redis_rooms, redis_private_messages,
                       local_clients, local_rooms, local_private_messages, uuid_count,
                       evicted, retrieved, arrived, posted, req, acknowledged, disconnected, connection_attempts, calls, attempts>>

\* app.py:80-81: the three get succeeded; set_clients writes, or swallows
\* the error of its write (app.py:96-99), and updates the mirror; then
\* redis_client.set raises in set_rooms (app.py:117), before app.py:121
set_rooms_raises ==
    \E error \in RedisErrors, written \in BOOLEAN :
        LET s == swept(get_clients, get_rooms, get_private_messages)
        IN /\ phase = "idle"
           /\ redis_client
           /\ ~caught_by_set_rooms(error)
           /\ redis_clients' = IF written THEN s.clients ELSE redis_clients
           /\ local_clients' =
                Update(Restrict(local_clients, DOMAIN local_clients \cap DOMAIN s.clients),
                       s.clients)
           /\ phase' = "raised"
           /\ UNCHANGED <<now, redis_client, redis_rooms, redis_private_messages,
                          local_rooms, local_private_messages, uuid_count,
                          evicted, retrieved, arrived, posted, req, acknowledged, disconnected, connection_attempts, calls, attempts>>

\* the exception leaves receive_http_command: Flask answers 500
internal_server_error ==
    /\ phase = "raised"
    /\ phase' = "idle"
    /\ UNCHANGED <<now, redis_client, redis_clients, redis_rooms, redis_private_messages,
                   local_clients, local_rooms, local_private_messages, uuid_count,
                   evicted, retrieved, arrived, posted, req, acknowledged, disconnected, connection_attempts, calls, attempts>>

InitOutage ==
    /\ now = 0
    /\ redis_client = FALSE
    /\ redis_clients = Empty
    /\ redis_rooms = Empty
    /\ redis_private_messages = <<>>
    /\ local_clients = Empty
    /\ local_rooms = Empty
    /\ local_private_messages = <<>>
    /\ uuid_count = 0
    /\ phase = "start"
    /\ evicted = NoEviction
    /\ retrieved = {}
    /\ arrived = NotArrived
    /\ posted = {}
    /\ req = [slot \in Slots |-> NoRequest]
    /\ acknowledged = {}
    /\ disconnected = {}
    /\ connection_attempts = Empty
    /\ calls = [slot \in Slots |-> NoCall]
    /\ attempts = {}

NextOutage ==
    \/ startup
    \/ Tick(TickStep, MaxTicks)
    \/ clean_expired_data
    \/ get_clients_raises
    \/ set_rooms_raises
    \/ internal_server_error
    \/ UploadPublicKey
    \/ JoinRoom(OneRoom)
    \/ Heartbeat
    \/ Disconnect

SpecOutage == InitOutage /\ [][NextOutage]_vars

(* ---- presence and the private mailbox on the clock of CLIENT_TTL ---- *)
NextExpiry ==
    \/ Tick(TickStep, MaxTicks)
    \/ clean_expired_data
    \/ UploadPublicKey
    \/ SendPrivate
    \/ GetPrivateMessages
    \/ ListClients
    \/ ListRooms
    \/ Heartbeat
    \/ Disconnect

SpecExpiry == Init /\ [][NextExpiry]_vars

(* ---- the private mailbox: one room, no room messages ---- *)
NextMail ==
    \/ Tick(MailTickStep, MaxMailTicks)
    \/ clean_expired_data
    \/ UploadPublicKey
    \/ JoinRoom(OneRoom)
    \/ SendPrivate
    \/ GetPrivateMessages
    \/ LeaveRoom
    \/ Heartbeat
    \/ Disconnect

SpecMail == Init /\ [][NextMail]_vars

(* ---- private messages that reach MESSAGE_TTL ---- *)
MaxMailAgedTicks == 2

NextMailAged ==
    \/ Tick(MailTickStep, MaxMailAgedTicks)
    \/ clean_expired_data
    \/ UploadPublicKey
    \/ SendPrivate
    \/ GetPrivateMessages
    \/ Disconnect

SpecMailAged == Init /\ [][NextMailAged]_vars

(* ---- concurrent requests against the shared tier ---- *)
(* Each request is served by a thread of its own.  A thread reads a         *)
(* collection from the shared tier into a local snapshot (redis_client.get  *)
(* and json.loads), changes the snapshot, and writes it back                *)
(* (redis_client.set); each read and each write is one step, and the steps  *)
(* of the requests in flight interleave.  The clock stands still.           *)

\* what a step of a request thread leaves alone
ThreadStep ==
    UNCHANGED <<now, redis_client, phase, evicted, retrieved, arrived, posted,
                connection_attempts, calls, attempts>>

\* a step that does not answer an upload_public_key
no_upload_answered == UNCHANGED acknowledged

\* a step that neither answers a disconnect nor writes a registration
no_disconnect_answered == UNCHANGED disconnected

\* the request in slot moves to pc with the snapshot fields given in changes
goto(slot, pc, changes) ==
    req' = [req EXCEPT ![slot] =
               [f \in DOMAIN req[slot] |->
                   IF f = "pc" THEN pc
                   ELSE IF f \in DOMAIN changes THEN changes[f]
                   ELSE req[slot][f]]]

store_unchanged ==
    UNCHANGED <<redis_clients, redis_rooms, redis_private_messages,
                local_clients, local_rooms, local_private_messages>>

\* send_private requests that have not drawn their uuid4 yet
pending_sends ==
    Cardinality({slot \in Slots :
        /\ req[slot].command = "send_private"
        /\ req[slot].pc \notin {"done", "handler_set_private"}})

\* a request arrives (app.py:186-189)
Arrive(slot) ==
    \E command \in ConcCommands, client_id \in ClientIds, to_client_id \in ClientIds,
       public_key \in PublicKeys :
        /\ req[slot].pc = "done"
        /\ command = "send_private" => uuid_count + pending_sends < MaxConcPrivate
        /\ req' = [req EXCEPT ![slot] =
                      [NoRequest EXCEPT !.pc = "sweep_get_clients",
                                        !.command = command,
                                        !.client_id = client_id,
                                        !.public_key =
                                            IF command = "upload_public_key"
                                            THEN public_key ELSE None,
                                        !.to_client_id =
                                            IF command = "send_private"
                                            THEN to_client_id ELSE None]]
        /\ store_unchanged
        /\ UNCHANGED uuid_count
        /\ ThreadStep
        /\ no_upload_answered
        /\ no_disconnect_answered

\* app.py:37
sweep_get_clients(slot) ==
    /\ req[slot].pc = "sweep_get_clients"
    /\ goto(slot, "sweep_get_rooms", [clients |-> get_clients])
    /\ store_unchanged
    /\ UNCHANGED uuid_count
    /\ ThreadStep
    /\ no_upload_answered
    /\ no_disconnect_answered

\* app.py:38
sweep_get_rooms(slot) ==
    /\ req[slot].pc = "sweep_get_rooms"
    /\ goto(slot, "sweep_get_private", [rooms |-> get_rooms])
    /\ store_unchanged
    /\ UNCHANGED uuid_count
    /\ ThreadStep
    /\ no_upload_answered
    /\ no_disconnect_answered

\* app.py:39-79: the third read, and the eviction done on the three snapshots
sweep_get_private(slot) ==
    LET s == swept(req[slot].clients, req[slot].rooms, get_private_messages)
    IN /\ req[slot].pc = "sweep_get_private"
       /\ goto(slot, "sweep_set_clients",
               [clients |-> s.clients, rooms |-> s.rooms,
                private_msgs |-> s.private_messages])
       /\ store_unchanged
       /\ UNCHANGED uuid_count
       /\ ThreadStep
       /\ no_upload_answered
       /\ no_disconnect_answered

\* app.py:81
sweep_set_clients(slot) ==
    /\ req[slot].pc = "sweep_set_clients"
    /\ set_clients(req[slot].clients)
    /\ goto(slot, "sweep_set_rooms", [clients |-> Empty])
    /\ UNCHANGED <<redis_rooms, local_rooms, redis_private_messages,
                   local_private_messages, uuid_count>>
    /\ ThreadStep
    /\ no_upload_answered
    /\ no_disconnect_answered

\* app.py:82
sweep_set_rooms(slot) ==
    /\ req[slot].pc = "sweep_set_rooms"
    /\ set_rooms(req[slot].rooms)
    /\ goto(slot, "sweep_set_private", [rooms |-> Empty])
    /\ UNCHANGED <<redis_clients, local_clients, redis_private_messages,
                   local_private_messages, uuid_count>>
    /\ ThreadStep
    /\ no_upload_answered
    /\ no_disconnect_answered

\* app.py:83
sweep_set_private(slot) ==
    /\ req[slot].pc = "sweep_set_private"
    /\ set_private_messages(req[slot].private_msgs)
    /\ goto(slot, "handler_get_clients", [private_msgs |-> <<>>])
    /\ UNCHANGED <<redis_clients, local_clients, redis_rooms, local_rooms, uuid_count>>
    /\ ThreadStep
    /\ no_upload_answered
    /\ no_disconnect_answered

\* the request in slot has been answered
return(slot) == req' = [req EXCEPT ![slot] = NoRequest]

\* the handler's get_clients() and what it does to the snapshot
\* (app.py:211-223, 298-307, 321-327)
handler_get_clients(slot) ==
    LET r == req[slot]
        clients == get_clients
    IN /\ r.pc = "handler_get_clients"
       /\ r.command \in ConcCommands
       /\ IF r.command = "upload_public_key"
          THEN goto(slot, "handler_set_clients",
                    [clients |-> Put(clients, r.client_id,
                                     stored_client(new_client(r.public_key)))])
          ELSE IF ~Registered(r.client_id, clients)
          THEN return(slot)
          ELSE IF r.command = "send_private" /\ r.to_client_id \notin DOMAIN clients
          THEN return(slot)
          ELSE goto(slot, "handler_set_clients", [clients |-> touch(clients, r.client_id)])
       /\ store_unchanged
       /\ UNCHANGED uuid_count
       /\ ThreadStep
       /\ no_upload_answered
       /\ no_disconnect_answered

\* the handler's set_clients(clients) (app.py:224, 308, 328)
handler_set_clients(slot) ==
    LET r == req[slot]
    IN /\ r.pc = "handler_set_clients"
       /\ set_clients(r.clients)
       /\ IF r.command = "upload_public_key"
          THEN return(slot)
          ELSE goto(slot, "handler_get_private", [clients |-> Empty])
       /\ UNCHANGED <<redis_rooms, local_rooms, redis_private_messages,
                      local_private_messages, uuid_count>>
       /\ ThreadStep
       /\ acknowledged' = IF r.command = "upload_public_key"
                          THEN acknowledged \cup {r.client_id}
                          ELSE acknowledged
       /\ disconnected' = IF r.command = "upload_public_key"
                          THEN disconnected \ {r.client_id}
                          ELSE disconnected

\* get_private_messages() and the change made to the snapshot: the new
\* message (app.py:169-182) or the read flags (app.py:330-351)
handler_get_private(slot) ==
    LET r == req[slot]
        private_msgs == get_private_messages
    IN /\ r.pc = "handler_get_private"
       /\ IF r.command = "send_private"
          THEN /\ goto(slot, "handler_set_private",
                       [private_msgs |->
                           add_private_message(private_msgs, uuid_count + 1, r.client_id,
                                               r.to_client_id, "hi")])
               /\ uuid_count' = uuid_count + 1
          ELSE /\ goto(slot, "handler_set_private",
                       [private_msgs |->
                           mark_read(private_msgs, my_messages(private_msgs, r.client_id))])
               /\ UNCHANGED uuid_count
       /\ store_unchanged
       /\ ThreadStep
       /\ no_upload_answered
       /\ no_disconnect_answered

\* set_private_messages(private_msgs) (app.py:183, 353), then the response
handler_set_private(slot) ==
    /\ req[slot].pc = "handler_set_private"
    /\ set_private_messages(req[slot].private_msgs)
    /\ return(slot)
    /\ UNCHANGED <<redis_clients, local_clients, redis_rooms, local_rooms, uuid_count>>
    /\ ThreadStep
    /\ no_upload_answered
    /\ no_disconnect_answered

\* the process runs in shared-tier mode
InitConc == Init /\ redis_client

NextConc ==
    \E slot \in Slots :
        \/ Arrive(slot)
        \/ sweep_get_clients(slot)
        \/ sweep_get_rooms(slot)
        \/ sweep_get_private(slot)
        \/ sweep_set_clients(slot)
        \/ sweep_set_rooms(slot)
        \/ sweep_set_private(slot)
        \/ handler_get_clients(slot)
        \/ handler_set_clients(slot)
        \/ handler_get_private(slot)
        \/ handler_set_private(slot)

SpecConc == InitConc /\ [][NextConc]_vars

(* ---- concurrent registrations ---- *)
\* a request for upload_public_key arrives
ArriveUpload(slot) == Arrive(slot) /\ req'[slot].command = "upload_public_key"

NextRace ==
    \E slot \in Slots :
        \/ ArriveUpload(slot)
        \/ sweep_get_clients(slot)
        \/ sweep_get_rooms(slot)
        \/ sweep_get_private(slot)
        \/ sweep_set_clients(slot)
        \/ sweep_set_rooms(slot)
        \/ sweep_set_private(slot)
        \/ handler_get_clients(slot)
        \/ handler_set_clients(slot)

SpecRace == InitConc /\ [][NextRace]_vars

(* ---- commands that fail: room messages and private messages ---- *)
\* the clock advances MaxErrorTicks times at most; a send_message is served
\* while the room holds fewer than MaxErrorMessages messages, a send_private
\* while fewer than MaxErrorMessages private messages have been sent
MaxErrorTicks == 1
MaxErrorMessages == 1

NextErrors ==
    \/ Tick(TickStep, MaxErrorTicks)
    \/ clean_expired_data
    \/ UploadPublicKey
    \/ JoinRoom(OneRoom)
    \/ SendMessage /\ stored_messages(get_rooms, DOMAIN get_rooms) < MaxErrorMessages
    \/ GetMessages
    \/ SendPrivate /\ uuid_count < MaxErrorMessages

SpecErrors == Init /\ [][NextErrors]_vars

(* ---- two processes given the same requests ---- *)
(* A process in shared-tier mode and a process in local-only mode receive   *)
(* the same requests at the same clock values.  redis_clients, redis_rooms  *)
(* and redis_private_messages are the shared tier of the first process,     *)
(* whose mirror is never read while the tier answers (app.py:86-92);        *)
(* local_clients, local_rooms and local_private_messages are the            *)
(* dictionaries of the second process.                                      *)
TwinIds == {"5", Number5}
TwinCommands == {"upload_public_key", "join_room", "heartbeat", "disconnect"}

\* what get_clients(), get_rooms(), get_private_messages() return in the
\* process in local-only mode: the dictionaries themselves (app.py:92, 113, 130)
LocalStore ==
    [clients |-> local_clients, rooms |-> local_rooms,
     private_messages |-> local_private_messages]

twin_handler(command, store, client_id) ==
    CASE command = "upload_public_key" -> upload_public_key(store, client_id, "pk1")
      [] command = "join_room" -> join_room(store, client_id, "lobby")
      [] command = "heartbeat" -> heartbeat(store, client_id)
      [] command = "disconnect" -> disconnect(store, client_id)

\* both processes run the sweep of a request
twin_clean_expired_data ==
    LET shared == swept(redis_clients, redis_rooms, redis_private_messages)
        local == swept(local_clients, local_rooms, local_private_messages)
    IN /\ phase = "idle"
       /\ phase' = "swept"
       /\ redis_clients' = json_loads_dumps(shared.clients)
       /\ redis_rooms' = json_loads_dumps_rooms(shared.rooms)
       /\ redis_private_messages' = shared.private_messages
       /\ local_clients' = local.clients
       /\ local_rooms' = local.rooms
       /\ local_private_messages' = local.private_messages
       /\ evicted' = [clients |-> shared.expired, rooms |-> shared.removed_rooms]
       /\ arrived' = [clients |-> redis_clients, rooms |-> redis_rooms,
                       private_messages |-> redis_private_messages]
       /\ UNCHANGED <<now, redis_client, uuid_count, retrieved, posted, req,
                      acknowledged, disconnected, connection_attempts, calls, attempts>>

\* both processes run the handler of the request
TwinRequest(command, client_id) ==
    LET shared == twin_handler(command, Store, client_id)
        local == twin_handler(command, LocalStore, client_id)
    IN /\ phase = "swept"
       /\ phase' = "idle"
       /\ redis_clients' = json_loads_dumps(shared.clients)
       /\ redis_rooms' = json_loads_dumps_rooms(shared.rooms)
       /\ redis_private_messages' = shared.private_messages
       /\ local_clients' = local.clients
       /\ local_rooms' = local.rooms
       /\ local_private_messages' = local.private_messages
       /\ evicted' = NoEviction
       /\ arrived' = NotArrived
       /\ UNCHANGED <<now, redis_client, uuid_count, retrieved, posted, req,
                      acknowledged, disconnected, connection_attempts, calls, attempts>>

NextTwin ==
    \/ Tick(TickStep, MaxTicks)
    \/ twin_clean_expired_data
    \/ \E command \in TwinCommands, client_id \in TwinIds : TwinRequest(command, client_id)

SpecTwin == InitConc /\ [][NextTwin]_vars

(* ---- a disconnect among concurrent requests ---- *)
PresenceCommands == {"upload_public_key", "disconnect"}

\* a request for upload_public_key or disconnect arrives (app.py:186-189)
ArrivePresence(slot) ==
    \E command \in PresenceCommands, client_id \in ClientIds, public_key \in PublicKeys :
        /\ req[slot].pc = "done"
        /\ req' = [req EXCEPT ![slot] =
                      [NoRequest EXCEPT !.pc = "sweep_get_clients",
                                        !.command = command,
                                        !.client_id = client_id,
                                        !.public_key =
                                            IF command = "upload_public_key"
                                            THEN public_key ELSE None]]
        /\ store_unchanged
        /\ UNCHANGED uuid_count
        /\ ThreadStep
        /\ no_upload_answered
        /\ no_disconnect_answered

\* app.py:474-476
disconnect_get_clients(slot) ==
    LET r == req[slot]
        clients == get_clients
    IN /\ r.pc = "handler_get_clients"
       /\ r.command = "disconnect"
       /\ IF ~Registered(r.client_id, clients)
          THEN return(slot)
          ELSE goto(slot, "disconnect_get_rooms", [clients |-> clients])
       /\ store_unchanged
       /\ UNCHANGED uuid_count
       /\ ThreadStep
       /\ no_upload_answered
       /\ no_disconnect_answered

\* app.py:478-482
disconnect_get_rooms(slot) ==
    /\ req[slot].pc = "disconnect_get_rooms"
    /\ goto(slot, "disconnect_set_rooms",
            [rooms |-> remove_from_rooms(get_rooms, req[slot].client_id)])
    /\ store_unchanged
    /\ UNCHANGED uuid_count
    /\ ThreadStep
    /\ no_upload_answered
    /\ no_disconnect_answered

\* app.py:483-485
disconnect_set_rooms(slot) ==
    LET r == req[slot]
    IN /\ r.pc = "disconnect_set_rooms"
       /\ set_rooms(r.rooms)
       /\ goto(slot, "disconnect_set_clients",
               [rooms |-> Empty,
                clients |-> Restrict(r.clients, DOMAIN r.clients \ {r.client_id})])
       /\ UNCHANGED <<redis_clients, local_clients, redis_private_messages,
                      local_private_messages, uuid_count>>
       /\ ThreadStep
       /\ no_upload_answered
       /\ no_disconnect_answered

\* app.py:486-492: set_clients(clients), then the response
disconnect_set_clients(slot) ==
    /\ req[slot].pc = "disconnect_set_clients"
    /\ set_clients(req[slot].clients)
    /\ return(slot)
    /\ disconnected' = disconnected \cup {req[slot].client_id}
    /\ UNCHANGED <<redis_rooms, local_rooms, redis_private_messages,
                   local_private_messages, uuid_count>>
    /\ ThreadStep
    /\ no_upload_answered

NextPresence ==
    \E slot \in Slots :
        \/ ArrivePresence(slot)
        \/ sweep_get_clients(slot)
        \/ sweep_get_rooms(slot)
        \/ sweep_get_private(slot)
        \/ sweep_set_clients(slot)
        \/ sweep_set_rooms(slot)
        \/ sweep_set_private(slot)
        \/ handler_get_clients(slot)
        \/ handler_set_clients(slot)
        \/ disconnect_get_clients(slot)
        \/ disconnect_get_rooms(slot)
        \/ disconnect_set_rooms(slot)
        \/ disconnect_set_clients(slot)

SpecPresence == InitConc /\ [][NextPresence]_vars

(* ---- the firewall's rate limiter: is_rate_limited, firewall.py:137-149 ---- *)
(* main starts a thread per accepted connection (firewall.py:260-270);      *)
(* handle_client calls is_rate_limited for a source that is not blocked     *)
(* (firewall.py:173-200).  now is time.time(), in seconds.                  *)
SourceIps == {"10.0.0.1", "10.0.0.2"}
\* "max_attempts_per_minute" of the rules in force
max_attempts_per_minute == 2
\* firewall.py:139
window == 60
\* the clock advances by one of ClockSteps up to MaxClock; MaxAttempts
\* connections are accepted at most
ClockSteps == {30}
MaxClock == 60
MaxAttempts == 4

server_unchanged ==
    UNCHANGED <<redis_client, redis_clients, redis_rooms, redis_private_messages,
                local_clients, local_rooms, local_private_messages, uuid_count,
                phase, evicted, retrieved, arrived, posted, req, acknowledged,
                disconnected>>

\* time passes
clock_advances ==
    \E step \in ClockSteps :
        /\ now + step <= MaxClock
        /\ now' = now + step
        /\ UNCHANGED <<connection_attempts, calls, attempts>>
        /\ server_unchanged

in_progress == {slot \in Slots : calls[slot].pc # "done"}

\* a connection is accepted, its thread reaches is_rate_limited and reads
\* the clock (firewall.py:140), before it takes the lock
handle_client(slot) ==
    \E ip \in SourceIps :
        /\ calls[slot].pc = "done"
        /\ Cardinality(attempts) + Cardinality(in_progress) < MaxAttempts
        /\ calls' = [calls EXCEPT ![slot] = [pc |-> "with _attempts_lock", ip |-> ip,
                                             now |-> now]]
        /\ UNCHANGED <<now, connection_attempts, attempts>>
        /\ server_unchanged

\* firewall.py:144-146: the timestamps of ip younger than window, and this one
kept_timestamps(timestamps, time) ==
    LET young(t) == time - t < window
    IN Append(SelectSeq(timestamps, young), time)

\* firewall.py:143-149, under _attempts_lock: one step
is_rate_limited(slot) ==
    LET ip == calls[slot].ip
        timestamps == kept_timestamps(IF ip \in DOMAIN connection_attempts
                                      THEN connection_attempts[ip] ELSE <<>>,
                                      calls[slot].now)
    IN /\ calls[slot].pc = "with _attempts_lock"
       /\ connection_attempts' = Put(connection_attempts, ip, timestamps)
       /\ attempts' = attempts \cup
                          {[id |-> Cardinality(attempts) + 1, ip |-> ip,
                            time |-> calls[slot].now,
                            limited |-> Len(timestamps) > max_attempts_per_minute]}
       /\ calls' = [calls EXCEPT ![slot] = NoCall]
       /\ UNCHANGED now
       /\ server_unchanged

NextFirewall ==
    \/ clock_advances
    \/ \E slot \in Slots : handle_client(slot)
    \/ \E slot \in Slots : is_rate_limited(slot)

SpecFirewall == Init /\ [][NextFirewall]_vars

(* ======================= properties ======================= *)
\* the step in which a request runs its sweep
SweepStep == phase = "idle" /\ phase' = "swept"

\* the rooms of rooms in whose clients mapping client_id is a key
rooms_of(rooms, client_id) ==
    {room_id \in DOMAIN rooms : client_id \in DOMAIN rooms[room_id].clients}

\* the members of a room the sweep does not evict
live_members(clients, room) ==
    {client_id \in DOMAIN room.clients :
        ~(client_id \in DOMAIN clients /\ now - clients[client_id].last_seen > CLIENT_TTL)}

(* ---- C1 ---- *)
\* C1: after every complete command, a client whose room_id is a non-null R
\* has R among the rooms and its id among the keys of rooms[R].clients.
\* The sweep removes a room whose last_activity is older than ROOM_TTL with
\* its members in it, and their room_id keeps naming it.
RoomIdNamesMembership ==
    phase = "idle" =>
        \A client_id \in DOMAIN get_clients :
            LET R == get_clients[client_id].room_id
            IN R # None => R \in DOMAIN get_rooms /\ client_id \in DOMAIN get_rooms[R].clients

(* ---- C2 ---- *)
\* C2: after every complete command, a client whose room_id is non-null has a
\* membership entry in the room room_id names and in no other room.
\* join_room adds the membership of the new room and leaves the old one.
MembershipInExactlyOneRoom ==
    phase = "idle" =>
        \A client_id \in DOMAIN get_clients :
            LET R == get_clients[client_id].room_id
            IN R # None => rooms_of(get_rooms, client_id) = {R}

(* ---- C3 ---- *)
\* C3: in a sweep, a client whose last_seen is more than CLIENT_TTL in the
\* past leaves the clients collection and the clients mapping of every room;
\* a client whose last_seen is at most CLIENT_TTL in the past stays.
SweepEvictsExactlyExpiredClients ==
    [][SweepStep =>
        \A client_id \in DOMAIN get_clients :
            IF now - get_clients[client_id].last_seen > CLIENT_TTL
            THEN /\ client_id \notin DOMAIN get_clients'
                 /\ rooms_of(get_rooms', client_id) = {}
            ELSE /\ client_id \in DOMAIN get_clients'
                 /\ get_clients'[client_id] = get_clients[client_id]]_vars

\* a sweep has evicted a client, kept a client whose age is exactly CLIENT_TTL,
\* and a room is left
SweepEvictedAndKept ==
    /\ phase = "swept"
    /\ evicted.clients # {}
    /\ \E client_id \in DOMAIN get_clients : now - get_clients[client_id].last_seen = CLIENT_TTL
    /\ DOMAIN get_rooms # {}

(* ---- C4 ---- *)
\* C4 as stated: the room messages of a client a sweep evicts, of age at most
\* MESSAGE_TTL, are in the rooms collection after that sweep.
\* The sweep removes the room the eviction empties, and its messages with it.
EvictedClientMessagesSurvive ==
    [][SweepStep =>
        \A room_id \in DOMAIN get_rooms :
            \A i \in 1..Len(get_rooms[room_id].messages) :
                LET msg == get_rooms[room_id].messages[i]
                    sender == msg.from_client
                IN (/\ sender \in DOMAIN get_clients
                    /\ now - get_clients[sender].last_seen > CLIENT_TTL
                    /\ now - msg.timestamp <= MESSAGE_TTL)
                   => /\ room_id \in DOMAIN get_rooms'
                      /\ msg \in Range(get_rooms'[room_id].messages)]_vars

\* C4 amended: a sweep leaves, in every room it does not remove, exactly the
\* messages of age at most MESSAGE_TTL, in their order, whether their sender
\* is evicted or not; the messages of a room the sweep removes go with it.
SweepKeepsMessagesOfKeptRooms ==
    [][SweepStep =>
        \A room_id \in DOMAIN get_rooms \cap DOMAIN get_rooms' :
            LET young(msg) == now - msg.timestamp <= MESSAGE_TTL
            IN get_rooms'[room_id].messages = SelectSeq(get_rooms[room_id].messages, young)]_vars

\* a sweep has evicted a client and a room it kept holds a message of that client
EvictedSenderMessageKept ==
    /\ phase = "swept"
    /\ \E room_id \in DOMAIN get_rooms :
           \E i \in 1..Len(get_rooms[room_id].messages) :
               get_rooms[room_id].messages[i].from_client \in evicted.clients

(* ---- C5 ---- *)
\* C5: a sweep does not remove a room that has a member left when the sweep
\* evaluates it, however old its last_activity is.
\* The sweep removes a room whose last_activity is older than ROOM_TTL
\* whether it has members or not.
SweepKeepsPopulatedRooms ==
    [][SweepStep =>
        \A room_id \in DOMAIN get_rooms :
            live_members(get_clients, get_rooms[room_id]) # {}
                => room_id \in DOMAIN get_rooms']_vars

(* ---- C6 ---- *)
\* C6: right after a sweep the rooms collection holds no room whose clients
\* mapping is empty and no room whose last_activity is older than ROOM_TTL,
\* and list_rooms in that request lists no such room.
NoEmptyOrStaleRoomAfterSweep ==
    phase = "swept" =>
        /\ \A room_id \in DOMAIN get_rooms :
               /\ DOMAIN get_rooms[room_id].clients # {}
               /\ now - get_rooms[room_id].last_activity <= ROOM_TTL
        /\ \A room \in list_rooms(Store).body :
               room.clients > 0 /\ now - room.last_activity <= ROOM_TTL

\* a sweep has removed a room and kept a room whose age is exactly ROOM_TTL
SweepRemovedAndKeptRoom ==
    /\ phase = "swept"
    /\ evicted.rooms # {}
    /\ \E room_id \in DOMAIN get_rooms : now - get_rooms[room_id].last_activity = ROOM_TTL

(* ---- C7 ---- *)
\* C7: the read flag of a stored private message changes only from false to
\* true, and only in the handler step of a get_private_messages request made
\* by the message's to_client; no other step changes it.
ReadFlagSetOnlyByRecipient ==
    [][\A i \in 1..Len(get_private_messages) :
         \A j \in 1..Len(get_private_messages') :
            LET old == get_private_messages[i]
                new == get_private_messages'[j]
            IN (old.id = new.id /\ old.read # new.read)
               => /\ ~old.read
                  /\ new.read
                  /\ Respond(get_private_messages_cmd(Store, old.to_client))]_vars

\* a recipient has retrieved a message and the sender of an unread one is still registered
ReadAndUnreadStored ==
    /\ \E msg \in Range(get_private_messages) : msg.read
    /\ \E msg \in Range(get_private_messages) :
           /\ ~msg.read
           /\ msg.from_client # msg.to_client
           /\ msg.from_client \in DOMAIN get_clients

(* ---- C8 ---- *)
\* C8: a stored private message whose read flag is true does not have read =
\* false in the next state of the private_messages collection, whichever
\* request thread takes the step.
\* A thread writes back the snapshot it read before the recipient's
\* get_private_messages set the flag, and the flag is false again.
ReadNeverReverts ==
    [][\A i \in 1..Len(get_private_messages) :
         \A j \in 1..Len(get_private_messages') :
            (/\ get_private_messages[i].id = get_private_messages'[j].id
             /\ get_private_messages[i].read)
                => get_private_messages'[j].read]_vars

(* ---- C9 ---- *)
\* C9: the response of get_private_messages to a registered client X holds one
\* entry for each stored private message whose from_client or to_client is X
\* and no other entry, each with direction "received" when its to_client is X
\* and "sent" otherwise, in ascending order of timestamp.
MailboxIsExactAndOrdered ==
    \A X \in DOMAIN get_clients :
        LET r == get_private_messages_cmd(Store, X)
            involved == {i \in 1..Len(get_private_messages) :
                            \/ get_private_messages[i].from_client = X
                            \/ get_private_messages[i].to_client = X}
        IN /\ r.code = 200
           /\ Len(r.body) = Cardinality(involved)
           /\ \A i \in involved :
                  \E k \in 1..Len(r.body) :
                      LET msg == get_private_messages[i]
                          e == r.body[k]
                      IN /\ e.id = msg.id
                         /\ e.from_client = msg.from_client
                         /\ e.to_client = msg.to_client
                         /\ e.text = msg.text
                         /\ e.timestamp = msg.timestamp
                         /\ e.direction = IF msg.to_client = X THEN "received" ELSE "sent"
           /\ \A k \in 1..Len(r.body) :
                  \E i \in involved : get_private_messages[i].id = r.body[k].id
           /\ \A k, l \in 1..Len(r.body) :
                  k < l => r.body[k].timestamp <= r.body[l].timestamp

\* a request of X is about to be answered; the store holds a message X sent
\* to another client and a message X is no party of
MailboxWithForeignMessage ==
    /\ phase = "swept"
    /\ \E X \in DOMAIN get_clients :
           /\ \E msg \in Range(get_private_messages) :
                  msg.from_client = X /\ msg.to_client # X
           /\ \E msg \in Range(get_private_messages) :
                  msg.from_client # X /\ msg.to_client # X

(* ---- C10 ---- *)
\* C10: the response of get_private_messages to B reports a message sent to B
\* with direction "received", and with read = false if no response to B has
\* held it before, read = true if one has.
ReadReportedAfterFirstRetrieval ==
    \A B \in DOMAIN get_clients :
        LET r == get_private_messages_cmd(Store, B)
        IN \A k \in 1..Len(r.body) :
               r.body[k].to_client = B
                   => /\ r.body[k].direction = "received"
                      /\ r.body[k].read = (r.body[k].id \in retrieved)

\* B is about to be answered a second time about one message and a first
\* time about another
SecondRetrievalPending ==
    /\ phase = "swept"
    /\ \E B \in DOMAIN get_clients :
           /\ \E msg \in Range(get_private_messages) :
                  msg.to_client = B /\ msg.id \in retrieved
           /\ \E msg \in Range(get_private_messages) :
                  msg.to_client = B /\ msg.id \notin retrieved

(* ---- C11 ---- *)
\* the three collections as the handlers read them
Collections ==
    [clients |-> get_clients, rooms |-> get_rooms, private_messages |-> get_private_messages]

\* the results of join_room, send_message, leave_room and heartbeat for client_id
registered_only(store, client_id) ==
    {join_room(store, client_id, room_name) : room_name \in RoomNames}
        \cup {send_message(store, client_id, message_text) : message_text \in Texts}
        \cup {leave_room(store, client_id), heartbeat(store, client_id)}

\* C11 as stated: a join_room, send_message, leave_room or heartbeat request
\* whose client_id is missing or unknown when the request arrives leaves the
\* three collections as they were when it arrived.
\* The sweep the request starts with evicts what has expired all the same.
UnregisteredRequestChangesNothing ==
    [][\A client_id \in Ids :
         (/\ phase = "swept"
          /\ ~Registered(client_id, arrived.clients)
          /\ \E r \in registered_only(Store, client_id) : Respond(r))
             => Collections' = arrived]_vars

\* C11 amended: such a request is answered UnregisteredClient, and its handler
\* leaves the three collections, and their in-process copies, as the sweep of
\* the same request left them.
UnregisteredRequestChangesNothingAfterSweep ==
    [][\A client_id \in Ids :
         (phase = "swept" /\ ~Registered(client_id, get_clients))
             => \A r \in registered_only(Store, client_id) :
                    /\ r.code = 400
                    /\ r.error = "Unregistered client"
                    /\ Respond(r) =>
                           UNCHANGED <<redis_clients, redis_rooms, redis_private_messages,
                                       local_clients, local_rooms,
                                       local_private_messages>>]_vars

\* a request finds clients and rooms stored, its sweep has evicted a client,
\* and an id is unknown
UnknownIdAfterEviction ==
    /\ phase = "swept"
    /\ evicted.clients # {}
    /\ DOMAIN get_rooms # {}
    /\ \E client_id \in ClientIds : ~Registered(client_id, get_clients)

(* ---- C12 ---- *)
\* C12 as stated: a heartbeat request of a registered client leaves the three
\* collections as they were when it arrived, but for the client's last_seen.
\* The sweep the request starts with evicts the other clients that have
\* expired and removes the rooms that are empty or stale.
HeartbeatChangesOnlyLastSeen ==
    [][\A client_id \in ClientIds :
         (/\ phase = "swept"
          /\ Registered(client_id, get_clients)
          /\ Respond(heartbeat(Store, client_id)))
             => Collections' = [arrived EXCEPT !.clients[client_id].last_seen = now]]_vars

\* C12 amended: the heartbeat handler of a registered client sets that
\* client's last_seen to now and changes nothing else of what the sweep of the
\* same request left: no other field, no other client, no room, no message.
HeartbeatHandlerChangesOnlyLastSeen ==
    [][\A client_id \in ClientIds :
         (phase = "swept" /\ Registered(client_id, get_clients))
             => LET r == heartbeat(Store, client_id)
                IN /\ r.code = 200
                   /\ Respond(r) =>
                          /\ get_clients' = [get_clients EXCEPT ![client_id].last_seen = now]
                          /\ UNCHANGED <<redis_rooms, redis_private_messages,
                                         local_rooms, local_private_messages>>]_vars

\* a member of a room that holds a message is about to be answered, later than
\* its last request, by a request whose sweep has evicted another client
MemberHeartbeatAfterEviction ==
    /\ phase = "swept"
    /\ evicted.clients # {}
    /\ \E client_id \in DOMAIN get_clients :
           LET room_id == get_clients[client_id].room_id
           IN /\ get_clients[client_id].last_seen < now
              /\ room_id \in DOMAIN get_rooms
              /\ get_rooms[room_id].messages # <<>>

(* ---- C13 ---- *)
\* C13: a message that send_message has stored, younger than MESSAGE_TTL,
\* whose sender has neither left its room, disconnected nor expired since, is
\* in that room and in the response of get_messages to every registered
\* client whose room_id is that room, the sender included.
\* The sweep removes the room with the message once its last_activity is older
\* than ROOM_TTL, whoever is in it; and a room that send_message creates has
\* no member and is removed by the next sweep.
SentMessageIsReturned ==
    phase = "swept" =>
        \A p \in posted :
            now - p.message.timestamp < MESSAGE_TTL =>
                \A client_id \in DOMAIN get_clients :
                    get_clients[client_id].room_id = p.room_id =>
                        LET r == get_messages(Store, client_id)
                        IN r.code = 200 /\ p.message \in Range(r.body)

(* ---- C14 ---- *)
\* a is b with some elements taken out
RECURSIVE is_subsequence(_, _)
is_subsequence(a, b) ==
    IF a = <<>> THEN TRUE
    ELSE IF b = <<>> THEN FALSE
    ELSE IF Head(a) = Head(b) THEN is_subsequence(Tail(a), Tail(b))
    ELSE is_subsequence(a, Tail(b))

\* C14: a step changes the message list of a room only by taking messages
\* out without reordering the rest (a sweep) or by appending one message at
\* the end (send_message); the lists are oldest first, and get_messages
\* answers the list of the caller's room in its stored order.
MessageOrderKept ==
    [][/\ \A room_id \in DOMAIN get_rooms \cap DOMAIN get_rooms' :
              LET old == get_rooms[room_id].messages
                  new == get_rooms'[room_id].messages
              IN \/ new = old
                 \/ SweepStep /\ is_subsequence(new, old)
                 \/ /\ phase = "swept"
                    /\ Len(new) = Len(old) + 1
                    /\ SubSeq(new, 1, Len(old)) = old
                    /\ new[Len(new)].timestamp = now
       /\ \A room_id \in DOMAIN get_rooms' \ DOMAIN get_rooms :
              Len(get_rooms'[room_id].messages) <= 1
       /\ \A room_id \in DOMAIN get_rooms' :
              \A i, j \in 1..Len(get_rooms'[room_id].messages) :
                  i < j => get_rooms'[room_id].messages[i].timestamp
                               <= get_rooms'[room_id].messages[j].timestamp
       /\ \A client_id \in DOMAIN get_clients :
              LET room_id == get_clients[client_id].room_id
              IN room_id \in DOMAIN get_rooms =>
                     get_messages(Store, client_id).body = get_rooms[room_id].messages]_vars

\* a sweep has taken the oldest message out of a room and kept a later one,
\* and a member is about to be answered
SweepDroppedOldestMessage ==
    /\ phase = "swept"
    /\ \E room_id \in DOMAIN get_rooms \cap DOMAIN arrived.rooms :
           /\ Len(arrived.rooms[room_id].messages) = 2
           /\ get_rooms[room_id].messages = Tail(arrived.rooms[room_id].messages)
           /\ \E client_id \in DOMAIN get_clients : get_clients[client_id].room_id = room_id

(* ---- C15 ---- *)
\* C15: upload_public_key with a public_key answers the id it registers and
\* puts under that id, whether a record exists or not, a record with the
\* public_key, room_id = null and last_seen = created_at = now; its handler
\* changes no other client record, no room and no private message.
UploadCreatesOrOverwritesRecord ==
    [][phase = "swept" =>
         \A client_id \in ClientIds, public_key \in PublicKeys :
             LET r == upload_public_key(Store, client_id, public_key)
                 record == new_client(public_key)
             IN /\ r.code = 200
                /\ r.body = <<client_id>>
                /\ record.public_key = public_key
                /\ record.room_id = None
                /\ record.last_seen = now
                /\ record.created_at = now
                /\ Respond(r) =>
                       /\ DOMAIN get_clients' = DOMAIN get_clients \cup {client_id}
                       /\ get_clients'[client_id] = stored_client(record)
                       /\ \A other \in DOMAIN get_clients \ {client_id} :
                              get_clients'[other] = get_clients[other]
                       /\ get_rooms' = get_rooms
                       /\ get_private_messages' = get_private_messages]_vars

\* a request is about to be answered while a client that registered earlier
\* is in a room, another client is registered and an id is free
RegisteredInRoomAndOther ==
    /\ phase = "swept"
    /\ \E client_id \in DOMAIN get_clients :
           /\ get_clients[client_id].room_id # None
           /\ get_clients[client_id].last_seen < now
    /\ Cardinality(DOMAIN get_clients) = 2

(* ---- C16 ---- *)
\* C16: join_room(c, R) by a registered client sets c.room_id to R, creates R
\* when it does not exist, leaves exactly one membership entry of c in R
\* (joining again replaces the entry), sets R.last_activity to now, and keeps
\* the messages and the other members of R as they were.
JoinRoomUpsertsMembership ==
    [][phase = "swept" =>
         \A c \in DOMAIN get_clients, R \in RoomNames :
             LET r == join_room(Store, c, R)
                 existed == R \in DOMAIN get_rooms
                 members == IF existed THEN get_rooms[R].clients ELSE Empty
             IN /\ r.code = 200
                /\ Respond(r) =>
                       /\ get_clients'[c].room_id = R
                       /\ R \in DOMAIN get_rooms'
                       /\ DOMAIN get_rooms'[R].clients = DOMAIN members \cup {c}
                       /\ get_rooms'[R].clients[c] = [public_key |-> get_clients[c].public_key]
                       /\ \A other \in DOMAIN members \ {c} :
                              get_rooms'[R].clients[other] = members[other]
                       /\ get_rooms'[R].last_activity = now
                       /\ get_rooms'[R].messages =
                              IF existed THEN get_rooms[R].messages ELSE <<>>]_vars

\* a client has joined, at this instant, a room that another member had
\* already written to
JoinedRoomWithMessages ==
    /\ phase = "idle"
    /\ "lobby" \in DOMAIN get_rooms
    /\ get_rooms["lobby"].last_activity = now
    /\ Cardinality(DOMAIN get_rooms["lobby"].clients) = 2
    /\ Len(get_rooms["lobby"].messages) >= 1
    /\ \A i \in 1..Len(get_rooms["lobby"].messages) :
           get_rooms["lobby"].messages[i].timestamp < now
    /\ \E c \in DOMAIN get_clients :
           get_clients[c].room_id = "lobby" /\ get_clients[c].last_seen = now

(* ---- C17 ---- *)
\* C17: leave_room by a registered client whose room_id is null changes none
\* of the three collections and is answered as a leave_room operation, not
\* as an error and not as an unknown command.
RoomlessLeaveIsAnswered ==
    phase = "swept" =>
        \A c \in DOMAIN get_clients :
            get_clients[c].room_id = None =>
                LET r == leave_room(Store, c)
                IN /\ r.code = 200
                   /\ r.error = None
                   /\ r.clients = get_clients
                   /\ r.rooms = get_rooms
                   /\ r.private_messages = get_private_messages

(* ---- C18 ---- *)
\* C18: after disconnect(c) by a registered client, c is no key of the
\* clients collection and no key of the clients mapping of any room, also of
\* rooms other than the one c.room_id names; the message list of every room
\* and the private messages are as they were.
DisconnectRemovesClientEverywhere ==
    [][phase = "swept" =>
         \A c \in DOMAIN get_clients :
             LET r == disconnect(Store, c)
             IN /\ r.code = 200
                /\ Respond(r) =>
                       /\ DOMAIN get_clients' = DOMAIN get_clients \ {c}
                       /\ DOMAIN get_rooms' = DOMAIN get_rooms
                       /\ \A R \in DOMAIN get_rooms :
                              /\ c \notin DOMAIN get_rooms'[R].clients
                              /\ get_rooms'[R].messages = get_rooms[R].messages
                       /\ get_private_messages' = get_private_messages]_vars

\* both rooms have lost their last member at this instant, and no client
\* that is still registered has been active at this instant: a client that
\* was a member of both has disconnected
DisconnectedFromBothRooms ==
    /\ phase = "idle"
    /\ DOMAIN get_rooms = RoomNames
    /\ \A R \in RoomNames :
           /\ get_rooms[R].clients = Empty
           /\ get_rooms[R].last_activity = now
    /\ \A c \in DOMAIN get_clients : get_clients[c].last_seen < now

SendPrivateStoresOneUnreadMessage ==
    /\ [](phase = "swept" =>
            \A from \in Ids, to \in ClientIds, text \in Texts :
                LET r == send_private(Store, from, to, text, uuid_count + 1)
                    stored == get_private_messages
                IN IF from \notin DOMAIN get_clients \/ to \notin DOMAIN get_clients
                   THEN /\ r.code = 400
                        /\ r.error = IF from \notin DOMAIN get_clients
                                     THEN "Unregistered client"
                                     ELSE "Recipient Client not found"
                        /\ r.private_messages = stored
                   ELSE /\ r.code = 200
                        /\ Len(r.private_messages) = Len(stored) + 1)
    \* a step that leaves the stored private messages alone is, by the first
    \* conjunct, the write-back of no successful send_private
    /\ [][phase = "swept" /\ get_private_messages' # get_private_messages =>
            \A from \in Ids, to \in ClientIds, text \in Texts :
                LET r == send_private(Store, from, to, text, uuid_count + 1)
                    stored == get_private_messages
                    n == Len(stored)
                IN IF from \notin DOMAIN get_clients \/ to \notin DOMAIN get_clients
                   THEN ~Respond(r)
                   ELSE Respond(r) =>
                            /\ Len(get_private_messages') = n + 1
                            /\ SubSeq(get_private_messages', 1, n) = stored
                            /\ get_private_messages'[n + 1].read = FALSE
                            /\ get_private_messages'[n + 1].from_client = from
                            /\ get_private_messages'[n + 1].to_client = to
                            /\ get_private_messages'[n + 1].text = text
                            /\ \A i \in 1..n :
                                   stored[i].id # get_private_messages'[n + 1].id]_vars

\* a private message has just been stored behind one that its recipient has read
UnreadStoredBehindRead ==
    /\ phase = "idle"
    /\ Len(get_private_messages) = 2
    /\ get_private_messages[1].read = TRUE
    /\ get_private_messages[2].read = FALSE
    /\ get_private_messages[2].timestamp = now
    /\ get_private_messages[2].id # get_private_messages[1].id
    /\ get_private_messages[2].from_client \in DOMAIN get_clients
    /\ get_clients[get_private_messages[2].from_client].last_seen = now

(* ---- C21 ---- *)
\* C21 as stated: in the request whose sweep finds the last_seen of client c
\* older than CLIENT_TTL, every command other than upload_public_key that
\* carries c as client_id is answered "Unregistered client", list_rooms
\* included.
ExpiredClientFailsEveryCommand ==
    phase = "swept" =>
        \A c \in DOMAIN arrived.clients :
            now - arrived.clients[c].last_seen > CLIENT_TTL =>
                \A answer \in {<<heartbeat(Store, c).code, heartbeat(Store, c).error>>,
                                <<list_clients(Store, c).code, list_clients(Store, c).error>>,
                                <<list_rooms(Store).code, list_rooms(Store).error>>} :
                    answer = <<400, "Unregistered client">>

\* C21: the sweep of a request runs before its routing, so in the request
\* whose sweep finds the last_seen of client c older than CLIENT_TTL, c is no
\* longer stored when the handler runs: join_room, send_message,
\* send_private, get_private_messages, get_messages, list_clients,
\* leave_room, heartbeat and disconnect with client_id c are answered 400
\* "Unregistered client", and send_private from a registered client to c is
\* answered 400 "Recipient Client not found".
ExpiredClientIsUnknownInSameRequest ==
    phase = "swept" =>
        \A c \in DOMAIN arrived.clients :
            now - arrived.clients[c].last_seen > CLIENT_TTL =>
                /\ c \notin DOMAIN get_clients
                /\ \A answer \in
                          {<<join_room(Store, c, R).code, join_room(Store, c, R).error>> :
                               R \in RoomNames}
                          \cup {<<send_message(Store, c, text).code,
                                  send_message(Store, c, text).error>> : text \in Texts}
                          \cup {<<send_private(Store, c, to, text, uuid_count + 1).code,
                                  send_private(Store, c, to, text, uuid_count + 1).error>> :
                                    to \in ClientIds, text \in Texts}
                          \cup {<<get_private_messages_cmd(Store, c).code,
                                  get_private_messages_cmd(Store, c).error>>,
                                <<get_messages(Store, c).code, get_messages(Store, c).error>>,
                                <<list_clients(Store, c).code, list_clients(Store, c).error>>,
                                <<leave_room(Store, c).code, leave_room(Store, c).error>>,
                                <<heartbeat(Store, c).code, heartbeat(Store, c).error>>,
                                <<disconnect(Store, c).code, disconnect(Store, c).error>>} :
                       answer = <<400, "Unregistered client">>
                /\ \A from \in DOMAIN get_clients, text \in Texts :
                       LET r == send_private(Store, from, c, text, uuid_count + 1)
                       IN r.code = 400 /\ r.error = "Recipient Client not found"

\* the sweep of a request has just evicted one client and kept another
SweptOneClientOfTwo ==
    /\ phase = "swept"
    /\ \E c \in DOMAIN arrived.clients :
           /\ now - arrived.clients[c].last_seen > CLIENT_TTL
           /\ c \notin DOMAIN get_clients
    /\ DOMAIN get_clients # {}

(* ---- C22 ---- *)
\* C22: in shared-tier mode, once a request has written its collections
\* back, the local mirror of each of the three collections equals the value
\* written: a key absent from the value is absent from the mirror.
MirrorEqualsValuePut ==
    redis_client /\ phase = "idle" =>
        /\ local_clients = redis_clients
        /\ local_rooms = redis_rooms
        /\ local_private_messages = redis_private_messages

(* ---- C23 ---- *)
\* C23: no failure of the shared tier after startup leaves an Entity Store
\* get or put: no request ends with an exception raised by get_clients,
\* get_rooms, get_private_messages, set_clients, set_rooms or
\* set_private_messages.
StoreFailureNeverEscapes == phase # "raised"

(* ---- C24 ---- *)
\* C24: when the shared tier cannot be reached at startup, the process does
\* not abort: it comes up in local-only mode.
StartupNeverAborts == phase # "aborted"

(* ---- C25 ---- *)
\* C25: in shared-tier mode the last writer wins: every step that changes
\* the stored clients collection installs, whole, the snapshot held by one
\* request thread, whatever the other thread has stored since that snapshot
\* was read; so two concurrent requests can both be answered with success
\* while the stored collection lacks the change of one of them.
LastWriterWins ==
    [][get_clients' # get_clients =>
          \E slot \in Slots : get_clients' = req[slot].clients]_vars

\* both upload_public_key requests have been answered 200, no request is in
\* flight, no time has passed, and one of the two records is not stored
RegistrationLost ==
    /\ redis_client
    /\ \A slot \in Slots : req[slot].pc = "done"
    /\ acknowledged = ClientIds
    /\ \E c \in ClientIds : c \notin DOMAIN get_clients
    /\ DOMAIN get_clients # {}

(* ---- C26 ---- *)
\* C26: a step that belongs to no request, the passage of time, changes no
\* collection: clients older than CLIENT_TTL, rooms older than ROOM_TTL and
\* messages older than MESSAGE_TTL stay stored until a request arrives.
TimeAloneChangesNothing ==
    [][phase' = phase =>
          UNCHANGED <<redis_clients, redis_rooms, redis_private_messages,
                      local_clients, local_rooms, local_private_messages>>]_vars

\* between two requests the store holds a client, a room and a room message
\* that have each outlived their TTL
StaleDataStillStored ==
    /\ phase = "idle"
    /\ \E c \in DOMAIN get_clients : now - get_clients[c].last_seen > CLIENT_TTL
    /\ \E R \in DOMAIN get_rooms :
           /\ now - get_rooms[R].last_activity > ROOM_TTL
           /\ \E i \in 1..Len(get_rooms[R].messages) :
                  now - get_rooms[R].messages[i].timestamp > MESSAGE_TTL

(* ---- C27 ---- *)
\* C27: a command that is no well-formed supported verb (an unknown verb, an
\* upload_public_key without public_key, a send_private without its
\* recipient or text part) is answered without an error status by a
\* response that lists each of the eleven supported verbs, and its handler
\* changes no client, room or private message.
MalformedCommandListsEveryVerb ==
    phase = "swept" =>
        /\ unknown_command(Store).code = 200
        /\ supported_verbs \subseteq
               {unknown_command(Store).body[i].verb :
                    i \in 1..Len(unknown_command(Store).body)}
        /\ send_private_format_error(Store).code = 200
        /\ unknown_command(Store).clients = get_clients
        /\ unknown_command(Store).rooms = get_rooms
        /\ unknown_command(Store).private_messages = get_private_messages

(* ---- C28 ---- *)
\* C28 as stated: a status request leaves the clients, rooms and
\* private_messages collections exactly as they were before the request.
StatusLeavesStoreAsFound ==
    [][phase = "swept" /\ Respond(server_status(Store)) =>
          /\ get_clients' = arrived.clients
          /\ get_rooms' = arrived.rooms
          /\ get_private_messages' = arrived.private_messages]_vars

\* C28, the part that holds: after the sweep it starts with, a status
\* request changes no collection, and the totals and the member and message
\* count of each room it reports are the sizes of the collections stored
\* after that sweep.
StatusReadsSweptStore ==
    [][phase = "swept" =>
          LET r == server_status(Store)
          IN /\ r.code = 200
             /\ r.body.total_clients = Cardinality(DOMAIN get_clients)
             /\ r.body.total_rooms = Cardinality(DOMAIN get_rooms)
             /\ r.body.total_private_messages = Len(get_private_messages)
             /\ DOMAIN r.body.rooms = DOMAIN get_rooms
             /\ \A R \in DOMAIN get_rooms :
                    /\ r.body.rooms[R].clients = Cardinality(DOMAIN get_rooms[R].clients)
                    /\ r.body.rooms[R].messages = Len(get_rooms[R].messages)
             /\ Respond(r) =>
                    /\ get_clients' = get_clients
                    /\ get_rooms' = get_rooms
                    /\ get_private_messages' = get_private_messages]_vars

\* the sweep of a request has evicted a client and kept a room that has one
\* member and two messages
SweptStoreWithRoomToCount ==
    /\ phase = "swept"
    /\ DOMAIN get_clients # DOMAIN arrived.clients
    /\ \E R \in DOMAIN get_rooms :
           /\ Cardinality(DOMAIN get_rooms[R].clients) = 1
           /\ Len(get_rooms[R].messages) = 2

(* ---- C29 ---- *)
\* C29: a stored private message leaves the store only in a sweep that finds
\* its age above MESSAGE_TTL, and such a sweep removes it whether it has been
\* read or not; no other step (disconnect, the eviction of its sender or
\* recipient) removes it, and no step changes its from_client, to_client,
\* text or timestamp.
PrivateMessageRemovedOnlyByTTL ==
    [][\A i \in 1..Len(get_private_messages) :
          LET old == get_private_messages[i]
              kept == {j \in 1..Len(get_private_messages') :
                          get_private_messages'[j].id = old.id}
          IN /\ \A j \in kept :
                    /\ get_private_messages'[j].from_client = old.from_client
                    /\ get_private_messages'[j].to_client = old.to_client
                    /\ get_private_messages'[j].text = old.text
                    /\ get_private_messages'[j].timestamp = old.timestamp
             /\ kept = {} => SweepStep /\ now - old.timestamp > MESSAGE_TTL
             /\ SweepStep /\ now - old.timestamp > MESSAGE_TTL => kept = {}]_vars

\* the sweep of a request has removed a private message older than
\* MESSAGE_TTL and kept a read one whose sender and recipient are both gone
ExpiredRemovedOrphanKept ==
    /\ phase = "swept"
    /\ \E i \in 1..Len(arrived.private_messages) :
           /\ now - arrived.private_messages[i].timestamp > MESSAGE_TTL
           /\ \A j \in 1..Len(get_private_messages) :
                  get_private_messages[j].id # arrived.private_messages[i].id
    /\ \E j \in 1..Len(get_private_messages) :
           /\ get_private_messages[j].read
           /\ get_private_messages[j].from_client \notin DOMAIN get_clients
           /\ get_private_messages[j].to_client \notin DOMAIN get_clients

(* ---- C30 ---- *)
\* C30: right after the sweep of a request no room holds a message whose age
\* is above MESSAGE_TTL, and every message whose age is at most MESSAGE_TTL,
\* in a room the sweep does not remove, is still in that room after it.
SweepFiltersRoomMessagesAtTTL ==
    /\ [](phase = "swept" =>
            \A room_id \in DOMAIN get_rooms :
                \A i \in 1..Len(get_rooms[room_id].messages) :
                    now - get_rooms[room_id].messages[i].timestamp <= MESSAGE_TTL)
    /\ [][SweepStep =>
            \A room_id \in DOMAIN get_rooms \cap DOMAIN get_rooms' :
                \A i \in 1..Len(get_rooms[room_id].messages) :
                    LET msg == get_rooms[room_id].messages[i]
                    IN now - msg.timestamp <= MESSAGE_TTL
                           => \E j \in 1..Len(get_rooms'[room_id].messages) :
                                  get_rooms'[room_id].messages[j] = msg]_vars

\* a sweep has taken a message older than MESSAGE_TTL out of a room it kept
\* and left in it a message whose age is exactly MESSAGE_TTL
SweepKeptMessageAtTTL ==
    /\ phase = "swept"
    /\ \E room_id \in DOMAIN get_rooms \cap DOMAIN arrived.rooms :
           /\ \E i \in 1..Len(arrived.rooms[room_id].messages) :
                  now - arrived.rooms[room_id].messages[i].timestamp > MESSAGE_TTL
           /\ \E j \in 1..Len(get_rooms[room_id].messages) :
                  now - get_rooms[room_id].messages[j].timestamp = MESSAGE_TTL

(* ---- C31 ---- *)
\* the answers of send_message and get_messages to a client without a room
NoActiveRoom == {"You aren't connected to any room", "You're not in any room"}

\* C31: when join_room answers 200 to a client, for whatever room name it
\* accepts, send_message and get_messages by that client do not fail with
\* NoActiveRoom in the state the request leaves; when leave_room or
\* upload_public_key answers 200, they do.
\* join_room accepts the room name "", which the room check of send_message
\* and get_messages takes for no room.
JoinedClientIsInRoom ==
    [][\A client_id \in ClientIds :
          /\ \A room_name \in AnyRoomName :
                 (/\ join_room(Store, client_id, room_name).code = 200
                  /\ Respond(join_room(Store, client_id, room_name)))
                 => /\ (send_message(Store, client_id, "hi").error \notin NoActiveRoom)'
                    /\ (get_messages(Store, client_id).error \notin NoActiveRoom)'
          /\ (\/ /\ leave_room(Store, client_id).code = 200
                 /\ leave_room(Store, client_id).error = None
                 /\ Respond(leave_room(Store, client_id))
              \/ \E public_key \in PublicKeys :
                     Respond(upload_public_key(Store, client_id, public_key)))
             => /\ (send_message(Store, client_id, "hi").error \in NoActiveRoom)'
                /\ (get_messages(Store, client_id).error \in NoActiveRoom)']_vars

(* ---- C32 ---- *)
\* C32: every command other than disconnect whose client_id names a
\* registered client (here join_room, list_clients, list_rooms, leave_room
\* with or without a room, heartbeat) leaves that client's last_seen at the
\* time of the request.
\* list_rooms reads no client_id, and leave_room without a current room
\* falls through to the unknown-command answer: neither writes last_seen.
EveryCommandRefreshesLastSeen ==
    [][\A client_id \in DOMAIN get_clients :
          (\/ \E room_name \in RoomNames : Respond(join_room(Store, client_id, room_name))
           \/ Respond(list_clients(Store, client_id))
           \/ Respond(list_rooms(Store))
           \/ Respond(leave_room(Store, client_id))
           \/ Respond(heartbeat(Store, client_id)))
          => /\ client_id \in DOMAIN get_clients'
             /\ get_clients'[client_id].last_seen = now]_vars

(* ---- C33 ---- *)
\* C33: between two commands, and between the sweep and the handler of a
\* command, every key of the clients mapping of a room is a key of the
\* clients collection.
MembersAreRegistered ==
    \A room_id \in DOMAIN get_rooms :
        DOMAIN get_rooms[room_id].clients \subseteq DOMAIN get_clients

\* a sweep has evicted a member of a room that another member keeps alive
EvictedMemberOfKeptRoom ==
    /\ phase = "swept"
    /\ \E room_id \in DOMAIN get_rooms \cap DOMAIN arrived.rooms :
           /\ DOMAIN arrived.rooms[room_id].clients \cap evicted.clients # {}
           /\ DOMAIN get_rooms[room_id].clients # {}

(* ---- C34 ---- *)
\* C34: between two commands, a client whose room_id is null is a member of
\* no room.
\* upload_public_key of an id that is a member of a room writes a record
\* with a null room_id and leaves the rooms as they are.
RoomlessClientHasNoMembership ==
    phase = "idle" =>
        \A client_id \in DOMAIN get_clients :
            get_clients[client_id].room_id = None => rooms_of(get_rooms, client_id) = {}

(* ---- C35 ---- *)
\* C35: a client whose disconnect has been answered is absent from the
\* clients collection in every later state, until an upload_public_key
\* writes its id again, whatever the other request threads do.
\* A thread that read the clients before the disconnect writes its snapshot
\* back after it, in its sweep or in its handler, and the record is stored
\* again.
DisconnectedStaysAbsent ==
    \A client_id \in disconnected : client_id \notin DOMAIN get_clients

(* ---- C36 ---- *)
\* C36: at a fixed clock value, clean_expired_data run on what
\* clean_expired_data has written evicts no client, removes no room and
\* leaves the clients, rooms and private_messages collections as they are;
\* in particular the collections a request's sweep has left are a fixpoint.
SweepIsIdempotent ==
    LET first == swept(get_clients, get_rooms, get_private_messages)
        second == swept(first.clients, first.rooms, first.private_messages)
    IN /\ second.clients = first.clients
       /\ second.rooms = first.rooms
       /\ second.private_messages = first.private_messages
       /\ second.expired = {}
       /\ second.removed_rooms = {}
       /\ phase = "swept" =>
              /\ first.clients = get_clients
              /\ first.rooms = get_rooms
              /\ first.private_messages = get_private_messages

\* a sweep has removed a room, not yet older than ROOM_TTL, because it
\* evicted every member of it
SweepCascaded ==
    /\ phase = "swept"
    /\ \E room_id \in evicted.rooms :
           /\ now - arrived.rooms[room_id].last_activity <= ROOM_TTL
           /\ DOMAIN arrived.rooms[room_id].clients # {}
           /\ DOMAIN arrived.rooms[room_id].clients \subseteq evicted.clients

(* ---- C37 ---- *)
\* C37: given the same requests at the same clock values, the process in
\* shared-tier mode and the process in local-only mode hold the same
\* clients, rooms and private_messages (up to the text of the keys) and give
\* the same answer to the next request.
\* A client_id that is a number is a key of the local dictionary as a
\* number and a key of the shared tier as a string: the process in
\* local-only mode knows the client, the other does not.
ModesAgree ==
    /\ json_loads_dumps(local_clients) = redis_clients
    /\ json_loads_dumps_rooms(local_rooms) = redis_rooms
    /\ local_private_messages = redis_private_messages
    /\ phase = "swept" =>
           \A command \in TwinCommands, client_id \in TwinIds :
               LET shared == twin_handler(command, Store, client_id)
                   local == twin_handler(command, LocalStore, client_id)
               IN /\ shared.code = local.code
                  /\ shared.error = local.error

(* ---- C38 ---- *)
\* clients is before with the last_seen of client_id set to now and nothing else changed
OnlyLastSeenRefreshed(clients, before, client_id) ==
    /\ DOMAIN clients = DOMAIN before
    /\ clients[client_id].last_seen = now
    /\ clients[client_id].room_id = before[client_id].room_id
    /\ clients[client_id].public_key = before[client_id].public_key
    /\ \A other \in DOMAIN before \ {client_id} : clients[other] = before[other]

\* C38: a send_message or get_messages that fails with NoActiveRoom is
\* answered 400, leaves the rooms and the private messages as its sweep left
\* them and changes in the clients only the caller's last_seen, which becomes
\* the request time; a send_private that fails because the recipient is
\* unknown leaves the three collections as its sweep left them.
FailedCommandChangesOnlyLastSeen ==
    /\ [](phase = "swept" =>
            \A client_id \in ClientIds :
                LET sent == send_message(Store, client_id, "hi")
                    got == get_messages(Store, client_id)
                IN /\ sent.error \in NoActiveRoom =>
                          /\ sent.code = 400
                          /\ sent.rooms = get_rooms
                          /\ sent.private_messages = get_private_messages
                          /\ OnlyLastSeenRefreshed(sent.clients, get_clients, client_id)
                   /\ got.error \in NoActiveRoom =>
                          /\ got.code = 400
                          /\ got.rooms = get_rooms
                          /\ got.private_messages = get_private_messages
                          /\ OnlyLastSeenRefreshed(got.clients, get_clients, client_id)
                   /\ \A to_client_id \in ClientIds :
                          LET private == send_private(Store, client_id, to_client_id, "hi",
                                                      uuid_count + 1)
                          IN private.error = "Recipient Client not found" =>
                                 /\ private.code = 400
                                 /\ private.clients = get_clients
                                 /\ private.rooms = get_rooms
                                 /\ private.private_messages = get_private_messages)
    /\ [][phase = "swept" /\ get_rooms' = get_rooms
              /\ get_private_messages' = get_private_messages =>
            \A client_id \in ClientIds :
                LET sent == send_message(Store, client_id, "hi")
                    got == get_messages(Store, client_id)
                IN /\ (sent.error \in NoActiveRoom /\ Respond(sent))
                          => OnlyLastSeenRefreshed(get_clients', get_clients, client_id)
                   /\ (got.error \in NoActiveRoom /\ Respond(got))
                          => OnlyLastSeenRefreshed(get_clients', get_clients, client_id)]_vars

\* after its sweep a request finds a registered client without a room whose
\* last_seen is in the past, an id that is not registered, a room with a
\* message and a stored private message
RoomlessCallerWithStoredData ==
    /\ phase = "swept"
    /\ \E client_id \in DOMAIN get_clients :
           /\ Falsy(get_clients[client_id].room_id)
           /\ get_clients[client_id].last_seen < now
    /\ ClientIds \ DOMAIN get_clients # {}
    /\ \E room_id \in DOMAIN get_rooms : get_rooms[room_id].messages # <<>>
    /\ get_private_messages # <<>>

(* ---- C39 ---- *)
\* the attempts of ip that passed is_rate_limited with a clock reading in
\* the window of 60 seconds that starts at from
passed_in_window(ip, from) ==
    {a \in attempts : a.ip = ip /\ ~a.limited /\ a.time >= from /\ a.time < from + window}

\* C39: for every source ip and every window of 60 seconds, at most
\* max_attempts_per_minute attempts of that ip pass is_rate_limited, whatever
\* the threads of other connections do.
\* A thread reads the clock before it takes the lock: a thread that read it
\* later and took the lock first has dropped the timestamps the earlier
\* reading still had to count.
AtMostMaxPerWindow ==
    \A a \in attempts :
        Cardinality(passed_in_window(a.ip, a.time)) <= max_attempts_per_minute

=============================================================================
